---- MODULE Spec2Model ----
(***************************************************************************)
(* Drilling risk-scoring engine: the five prediction agents, the alert and *)
(* recommendation orchestrator, and the polling cycle that drives them.    *)
(*                                                                         *)
(* Numbers.  Python floats are modelled in fixed point.  A probability or  *)
(* a sub-feature is an integer number of 1/100000ths, so One stands for    *)
(* 1.0 and Pct(80) for 0.8.  Quotients are truncated towards minus         *)
(* infinity at that resolution.                                            *)
(***************************************************************************)
EXTENDS Integers, Sequences, FiniteSets, TLC

VARIABLES
    predictions,      \* st.session_state.predictions / the predictions argument
    thresholds,       \* the thresholds argument of evaluate_predictions
    new_alerts,       \* the list evaluate_predictions returned last
    eval_call,        \* "not_called" | "returned" | "raised"
    recommendations,  \* the list get_recommendations returned last
    recs_call,        \* "not_called" | "returned" | "raised"
    drilling_data,    \* the reading handed to predict / st.session_state.data
    called,           \* the agent whose predict was called last, or "none"
    call_raised,      \* TRUE when that call raised to its caller
    result,           \* the dict that call returned
    rop_agent,        \* the ROPOptimizationAgent singleton
    connection_status,\* st.session_state.connection_status
    pc,               \* where the update_data thread stands
    new_data,         \* update_data's local new_data
    alerts,           \* st.session_state.alerts
    config,           \* st.session_state.config
    cycle,            \* fetches made so far
    raw_reading,      \* the data point feature derivation is called on
    derive_calls,     \* the derivation calls made: argument and returned reading
    generated_alerts, \* every alert update_data was handed, in generation order
    rop_arrivals,     \* the (features, ROP) pairs with ROP > 0 the ROP agent was given
    loops             \* where each update_data thread started so far stands

vars == <<predictions, thresholds, new_alerts, eval_call, recommendations,
          recs_call, drilling_data, called, call_raised, result, rop_agent,
          connection_status, pc, new_data, alerts, config, cycle,
          raw_reading, derive_calls, generated_alerts, rop_arrivals, loops>>

One == 100 * 1000
Pct(n) == n * 1000

Min(a, b) == IF a <= b THEN a ELSE b
Max(a, b) == IF a >= b THEN a ELSE b

InSeq(x, s) == \E i \in 1..Len(s) : s[i] = x

\* f"{p:.2f}": the probability rounded to hundredths
Fmt2(p) == (p + 500) \div 1000

(***************************************************************************)
(* Agent names and the order in which the orchestrator visits them.        *)
(***************************************************************************)
RiskAgents == <<"mechanical_sticking", "differential_sticking",
                "hole_cleaning", "washout_mud_losses">>
RiskAgentSet == {RiskAgents[i] : i \in 1..Len(RiskAgents)}
AllAgents == RiskAgents \o <<"rop_optimization">>
AllAgentSet == {AllAgents[i] : i \in 1..Len(AllAgents)}

\* An entry of the predictions dict: the key is absent, its value is None,
\* or its value is the dict an agent returned.  Optional keys of a result
\* dict are sequences of length 0 (key not set) or 1.
Absent == [kind |-> "absent"]
None == [kind |-> "None"]
IsResult(e) == e.kind = "result"

(***************************************************************************)
(* _generate_recommendations of the four risk agents.                      *)
(***************************************************************************)
MechanicalRecommendations(probability, factors) ==
    IF probability < Pct(30) THEN
        <<"Continue normal operations", "Monitor torque and drag trends">>
    ELSE IF probability < Pct(70) THEN
        <<"Reduce WOB and RPM temporarily",
          "Perform controlled back-reaming to clean the wellbore">>
        \o (IF InSeq("High torque to WOB ratio", factors)
            THEN <<"Consider adding lubricant to drilling fluid">> ELSE <<>>)
        \o (IF InSeq("Elevated drag factor", factors)
            THEN <<"Perform wiper trips to ensure wellbore is clean">> ELSE <<>>)
    ELSE
        <<"Stop drilling and work pipe up and down",
          "Reduce drilling parameters to minimum",
          "Circulate to clean wellbore">>
        \o (IF InSeq("Worsening trend in torque/WOB ratio", factors)
            THEN <<"Prepare contingency plan for stuck pipe">> ELSE <<>>)
        \o (IF InSeq("Significant RPM and WOB fluctuations", factors)
            THEN <<"Check for tight spots through controlled movement">> ELSE <<>>)

DifferentialRecommendations(probability, factors) ==
    IF probability < Pct(30) THEN
        <<"Continue normal operations", "Monitor ECD and differential pressure">>
    ELSE IF probability < Pct(70) THEN
        <<"Reduce stationary time",
          "Maintain pipe movement when circulation is stopped">>
        \o (IF InSeq("High differential pressure", factors)
            THEN <<"Consider reducing mud weight if safe to do so">> ELSE <<>>)
        \o (IF InSeq("Significant filter cake buildup potential", factors)
            THEN <<"Increase flow rate to reduce filter cake buildup",
                   "Consider adjusting drilling fluid properties">> ELSE <<>>)
    ELSE
        <<"Implement continuous pipe rotation",
          "Minimize connections and stationary time",
          "Monitor torque closely for early signs of sticking">>
        \o (IF InSeq("High differential pressure", factors)
            THEN <<"Optimize mud weight to minimize differential pressure",
                   "Consider managed pressure drilling techniques">> ELSE <<>>)
        \o (IF InSeq("Extended stationary time", factors)
            THEN <<"Implement work pipe protocol during connections">> ELSE <<>>)

HoleCleaningRecommendations(probability, factors) ==
    IF probability < Pct(30) THEN
        <<"Continue normal operations", "Monitor ECD and cuttings returns">>
    ELSE IF probability < Pct(70) THEN
        <<"Perform pumps-off flow check",
          "Consider wiper trips to clean the wellbore">>
        \o (IF InSeq("High ROP relative to flow rate", factors)
            THEN <<"Reduce ROP or increase flow rate">> ELSE <<>>)
        \o (IF InSeq("Increasing ECD trend", factors)
            THEN <<"Monitor for pressure spikes during connections">> ELSE <<>>)
        \o (IF InSeq("Poor hole cleaning efficiency", factors)
            THEN <<"Optimize drilling fluid properties",
                   "Increase annular velocity if possible">> ELSE <<>>)
    ELSE
        <<"Stop drilling and circulate bottoms up",
          "Perform wiper trips with high flow rates",
          "Monitor ECD closely">>
        \o (IF InSeq("Significant pressure fluctuations", factors)
            THEN <<"Check for packoff indications">> ELSE <<>>)
        \o (IF InSeq("Increasing torque trend", factors)
            THEN <<"Work pipe with high flow rates to clean wellbore",
                   "Consider modifying mud rheology to improve cutting transport">>
            ELSE <<>>)
        \o (IF InSeq("High ROP relative to flow rate", factors)
            THEN <<"Significantly reduce ROP until hole cleaning improves">>
            ELSE <<>>)

WashoutRecommendations(probability, factors, issue_type) ==
    IF probability < Pct(30) THEN
        <<"Continue normal operations">>
        \o (IF issue_type = "Washout"
            THEN <<"Monitor standpipe pressure for unexpected changes">>
            ELSE <<"Monitor flow returns and pit volumes">>)
    ELSE IF probability < Pct(70) THEN
        IF issue_type = "Washout" THEN
            <<"Check drill string connection integrity",
              "Monitor pressure trends carefully">>
            \o (IF InSeq("Unusual torque fluctuations", factors)
                THEN <<"Check for bottom hole assembly issues">> ELSE <<>>)
            \o (IF InSeq("Erratic pressure behavior", factors)
                THEN <<"Consider flow tests to isolate pressure anomalies">>
                ELSE <<>>)
        ELSE
            <<"Monitor pit volumes closely",
              "Perform flow checks to verify losses">>
            \o (IF InSeq("Reduced fluid returns", factors)
                THEN <<"Prepare lost circulation material",
                       "Consider reducing mud weight if safe to do so">>
                ELSE <<>>)
    ELSE
        IF issue_type = "Washout" THEN
            <<"Stop drilling and perform flow checks",
              "Prepare to trip out if washout confirmed">>
            \o (IF InSeq("Significant standpipe pressure drops", factors)
                THEN <<"Monitor for additional pressure decreases",
                       "Verify BHA component integrity">> ELSE <<>>)
            \o (IF InSeq("Erratic pressure behavior", factors)
                THEN <<"Isolate pressure fluctuations through systematic testing">>
                ELSE <<>>)
        ELSE
            <<"Stop drilling and assess loss severity",
              "Activate lost circulation protocol",
              "Consider spotting lost circulation material">>
            \o (IF InSeq("Reduced fluid returns", factors)
                THEN <<"Evaluate need for blind/controlled drilling procedures",
                       "Monitor for well control concerns due to losses">>
                ELSE <<>>)

\* The dict a risk agent returns (the wall-clock 'timestamp' key is left out).
RiskResult(probability, factors, recs, issue) ==
    [kind |-> "result",
     probability |-> probability,
     contributing_factors |-> factors,
     recommendations |-> recs,
     issue_type |-> issue]

(***************************************************************************)
(* orchestrator.evaluate_predictions                                       *)
(***************************************************************************)
\* The ', '.join(...) of the contributing factors is kept as the sequence.
AlertMessage(text, prob, factors) == <<text, Fmt2(prob), factors>>

TopRecommendation(pred) ==
    IF Len(pred.recommendations) > 0 THEN pred.recommendations[1]
    ELSE "No specific recommendation"

\* MechanicalStickingAlert with a strict comparison against the threshold.
MechanicalStickingAlertStrict(preds, thr) ==
    LET pred == preds["mechanical_sticking"] IN
    IF ~IsResult(pred) THEN <<>>
    ELSE LET mech_prob == pred.probability
             mech_threshold == thr["mechanical_sticking"]
         IN IF mech_prob > mech_threshold THEN
                <<[type |-> "Mechanical Sticking Risk",
                   severity |-> IF mech_prob >= Pct(80) THEN "HIGH"
                                ELSE IF mech_prob >= Pct(60) THEN "MEDIUM"
                                ELSE "LOW",
                   probability |-> Fmt2(mech_prob),
                   message |-> AlertMessage("Mechanical sticking risk detected",
                                            mech_prob, pred.contributing_factors),
                   recommendation |-> TopRecommendation(pred)]>>
            ELSE <<>>

MechanicalStickingAlert(preds, thr) ==
    LET pred == preds["mechanical_sticking"] IN
    IF ~IsResult(pred) THEN <<>>
    ELSE LET mech_prob == pred.probability
             mech_threshold == thr["mechanical_sticking"]
         IN IF mech_prob >= mech_threshold THEN
                <<[type |-> "Mechanical Sticking Risk",
                   severity |-> IF mech_prob >= Pct(80) THEN "HIGH"
                                ELSE IF mech_prob >= Pct(60) THEN "MEDIUM"
                                ELSE "LOW",
                   probability |-> Fmt2(mech_prob),
                   message |-> AlertMessage("Mechanical sticking risk detected",
                                            mech_prob, pred.contributing_factors),
                   recommendation |-> TopRecommendation(pred)]>>
            ELSE <<>>

DifferentialStickingAlert(preds, thr) ==
    LET pred == preds["differential_sticking"] IN
    IF ~IsResult(pred) THEN <<>>
    ELSE LET diff_prob == pred.probability
             diff_threshold == thr["differential_sticking"]
         IN IF diff_prob >= diff_threshold THEN
                <<[type |-> "Differential Sticking Risk",
                   severity |-> IF diff_prob >= Pct(80) THEN "HIGH"
                                ELSE IF diff_prob >= Pct(60) THEN "MEDIUM"
                                ELSE "LOW",
                   probability |-> Fmt2(diff_prob),
                   message |-> AlertMessage("Differential sticking risk detected",
                                            diff_prob, pred.contributing_factors),
                   recommendation |-> TopRecommendation(pred)]>>
            ELSE <<>>

HoleCleaningAlert(preds, thr) ==
    LET pred == preds["hole_cleaning"] IN
    IF ~IsResult(pred) THEN <<>>
    ELSE LET hole_prob == pred.probability
             hole_threshold == thr["hole_cleaning"]
         IN IF hole_prob >= hole_threshold THEN
                <<[type |-> "Hole Cleaning Risk",
                   severity |-> IF hole_prob >= Pct(80) THEN "HIGH"
                                ELSE IF hole_prob >= Pct(60) THEN "MEDIUM"
                                ELSE "LOW",
                   probability |-> Fmt2(hole_prob),
                   message |-> AlertMessage("Hole cleaning issue detected",
                                            hole_prob, pred.contributing_factors),
                   recommendation |-> TopRecommendation(pred)]>>
            ELSE <<>>

\* prediction.get('issue_type', default)
IssueTypeOr(pred, default) ==
    IF Len(pred.issue_type) > 0 THEN pred.issue_type[1] ELSE default

\* WashoutMudLossesAlert with the MEDIUM cut at 0.7.
WashoutMudLossesAlertCut70(preds, thr) ==
    LET pred == preds["washout_mud_losses"] IN
    IF ~IsResult(pred) THEN <<>>
    ELSE LET wash_prob == pred.probability
             wash_threshold == thr["washout_mud_losses"]
             issue_type == IssueTypeOr(pred, "Washout/Mud Losses")
         IN IF wash_prob >= wash_threshold THEN
                <<[type |-> issue_type \o " Risk",
                   severity |-> IF wash_prob >= Pct(80) THEN "HIGH"
                                ELSE IF wash_prob >= Pct(70) THEN "MEDIUM"
                                ELSE "LOW",
                   probability |-> Fmt2(wash_prob),
                   message |-> AlertMessage(issue_type \o " risk detected",
                                            wash_prob, pred.contributing_factors),
                   recommendation |-> TopRecommendation(pred)]>>
            ELSE <<>>

WashoutMudLossesAlert(preds, thr) ==
    LET pred == preds["washout_mud_losses"] IN
    IF ~IsResult(pred) THEN <<>>
    ELSE LET wash_prob == pred.probability
             wash_threshold == thr["washout_mud_losses"]
             issue_type == IssueTypeOr(pred, "Washout/Mud Losses")
         IN IF wash_prob >= wash_threshold THEN
                <<[type |-> issue_type \o " Risk",
                   severity |-> IF wash_prob >= Pct(80) THEN "HIGH"
                                ELSE IF wash_prob >= Pct(60) THEN "MEDIUM"
                                ELSE "LOW",
                   probability |-> Fmt2(wash_prob),
                   message |-> AlertMessage(issue_type \o " risk detected",
                                            wash_prob, pred.contributing_factors),
                   recommendation |-> TopRecommendation(pred)]>>
            ELSE <<>>

\* evaluate_predictions appending the washout alert first.
EvaluatePredictionsWashoutFirst(preds, thr) ==
    IF \E i \in 1..Len(RiskAgents) : preds[RiskAgents[i]].kind = "absent"
    THEN [raised |-> TRUE, alerts |-> <<>>]
    ELSE [raised |-> FALSE,
          alerts |-> WashoutMudLossesAlert(preds, thr)
                     \o MechanicalStickingAlert(preds, thr)
                     \o DifferentialStickingAlert(preds, thr)
                     \o HoleCleaningAlert(preds, thr)]

\* predictions[key] of a key the dict does not hold is a KeyError: the call
\* raises and returns nothing.
evaluate_predictions(preds, thr) ==
    IF \E i \in 1..Len(RiskAgents) : preds[RiskAgents[i]].kind = "absent"
    THEN [raised |-> TRUE, alerts |-> <<>>]
    ELSE [raised |-> FALSE,
          alerts |-> MechanicalStickingAlert(preds, thr)
                     \o DifferentialStickingAlert(preds, thr)
                     \o HoleCleaningAlert(preds, thr)
                     \o WashoutMudLossesAlert(preds, thr)]

(***************************************************************************)
(* orchestrator.get_recommendations                                        *)
(***************************************************************************)
\* Number formatting.  The ROP agent's parameters and improvement are kept
\* in hundredths; f"{x:.1f}" and f"{x:.0f}" round half to even.
RoundHalfEven(n, unit) ==
    LET q == n \div unit
        r == n % unit
    IN IF 2 * r > unit THEN q + 1
       ELSE IF 2 * r < unit THEN q
       ELSE IF q % 2 = 0 THEN q ELSE q + 1

Fmt1(h) ==
    LET t == RoundHalfEven(IF h < 0 THEN 0 - h ELSE h, 10)
    IN (IF h < 0 THEN "-" ELSE "")
       \o ToString(t \div 10) \o "." \o ToString(t % 10)

Fmt0(h) == ToString(RoundHalfEven(h, 100))

\* One critical_issues.append(...) of lines 161-192.
CriticalIssue(preds, agent) ==
    IF preds[agent].probability >= Pct(70) THEN
        <<[type |-> agent,
           probability |-> preds[agent].probability,
           recommendations |-> preds[agent].recommendations,
           issue_type |-> IF agent = "washout_mud_losses"
                          THEN IssueTypeOr(preds[agent], "Washout/Mud Losses")
                          ELSE ""]>>
    ELSE <<>>

\* CriticalIssues whose last block reads the hole cleaning result again.
CriticalIssuesHoleCleaningTwice(preds) ==
    CriticalIssue(preds, "mechanical_sticking")
    \o CriticalIssue(preds, "differential_sticking")
    \o CriticalIssue(preds, "hole_cleaning")
    \o CriticalIssue(preds, "hole_cleaning")

CriticalIssues(preds) ==
    CriticalIssue(preds, "mechanical_sticking")
    \o CriticalIssue(preds, "differential_sticking")
    \o CriticalIssue(preds, "hole_cleaning")
    \o CriticalIssue(preds, "washout_mud_losses")

\* list.sort(key=probability, reverse=True): a stable sort, so issues of
\* equal probability keep the order in which they were appended.
RECURSIVE InsertByProbability(_, _)
InsertByProbability(issue, sorted) ==
    IF sorted = <<>> THEN <<issue>>
    ELSE IF Head(sorted).probability >= issue.probability
         THEN <<Head(sorted)>> \o InsertByProbability(issue, Tail(sorted))
         ELSE <<issue>> \o sorted

RECURSIVE SortByProbability(_)
SortByProbability(issues) ==
    IF issues = <<>> THEN <<>>
    ELSE InsertByProbability(issues[Len(issues)],
                             SortByProbability(SubSeq(issues, 1, Len(issues) - 1)))

CriticalEntry(issue) ==
    IF issue.type = "mechanical_sticking" THEN
        [category |-> "Mechanical Sticking",
         title |-> "Critical Risk of Mechanical Sticking",
         impact_level |-> "High",
         description |-> "Immediate action required to prevent mechanical sticking, which could lead to significant non-productive time.",
         action_items |-> issue.recommendations,
         expected_benefits |-> <<"Prevent stuck pipe incident",
                                 "Avoid fishing operations",
                                 "Reduce non-productive time">>]
    ELSE IF issue.type = "differential_sticking" THEN
        [category |-> "Differential Sticking",
         title |-> "Critical Risk of Differential Sticking",
         impact_level |-> "High",
         description |-> "Immediate action required to prevent differential sticking due to pressure imbalance, which could lead to stuck pipe.",
         action_items |-> issue.recommendations,
         expected_benefits |-> <<"Prevent differential sticking incident",
                                 "Maintain well control",
                                 "Avoid costly drilling interruptions">>]
    ELSE IF issue.type = "hole_cleaning" THEN
        [category |-> "Hole Cleaning",
         title |-> "Critical Hole Cleaning Issue Detected",
         impact_level |-> "High",
         description |-> "Immediate action required to improve hole cleaning and prevent packoff or stuck pipe scenarios.",
         action_items |-> issue.recommendations,
         expected_benefits |-> <<"Prevent packoff incidents",
                                 "Improve cuttings transport",
                                 "Reduce risk of stuck pipe">>]
    ELSE
        [category |-> issue.issue_type,
         title |-> "Critical " \o issue.issue_type \o " Issue Detected",
         impact_level |-> "High",
         description |-> IF issue.issue_type = "Washout"
                         THEN "Immediate action required to address potential washout in the drillstring."
                         ELSE "Immediate action required to address mud losses to the formation.",
         action_items |-> issue.recommendations,
         expected_benefits |-> IF issue.issue_type = "Washout"
                               THEN <<"Prevent complete failure of drillstring components",
                                      "Avoid fishing operations",
                                      "Maintain well control">>
                               ELSE <<"Prevent complete loss of returns",
                                      "Maintain well control",
                                      "Reduce fluid costs">>]

RECURSIVE CriticalEntries(_)
CriticalEntries(sorted) ==
    IF sorted = <<>> THEN <<>>
    ELSE <<CriticalEntry(Head(sorted))>> \o CriticalEntries(Tail(sorted))

\* RopEntryBuilt comparing the lowest critical probability with 0.8.
RopEntryBuiltLowest(preds, critical) ==
    /\ Len(preds["rop_optimization"].recommended_parameters) > 0
    /\ (Len(critical) = 0 \/ critical[Len(critical)].probability < Pct(80))

\* Lines 267-306.  critical is the sorted critical_issues list.
RopEntryBuilt(preds, critical) ==
    /\ Len(preds["rop_optimization"].recommended_parameters) > 0
    /\ (Len(critical) = 0 \/ critical[1].probability < Pct(80))

\* f"{x:.1f}" of a value that is not a number is a ValueError.
RopEntryRaises(preds, critical) ==
    /\ RopEntryBuilt(preds, critical)
    /\ LET rec_params == preds["rop_optimization"].recommended_parameters[1]
       IN "str" \in {rec_params.WOB.t, rec_params.RPM.t, rec_params.Flow_Rate.t}

RopEntry(preds, critical) ==
    LET rop == preds["rop_optimization"] IN
    IF RopEntryBuilt(preds, critical)
    THEN LET rec_params == [k \in {"WOB", "RPM", "Flow_Rate"} |->
                               rop.recommended_parameters[1][k].v]
             improvement == IF Len(rop.expected_rop_improvement) > 0
                            THEN rop.expected_rop_improvement[1] ELSE 0
             param_recommendations ==
                 <<"Adjust Weight on Bit to " \o Fmt1(rec_params.WOB) \o " klbs",
                   "Adjust Rotary Speed to " \o Fmt0(rec_params.RPM) \o " RPM",
                   "Maintain Flow Rate at " \o Fmt0(rec_params.Flow_Rate) \o " gpm">>
                 \o (IF Len(rop.explanations) > 0 THEN rop.explanations[1] ELSE <<>>)
         IN <<[category |-> "ROP Optimization",
               title |-> "ROP Improvement Opportunity (" \o Fmt1(improvement) \o "%)",
               impact_level |-> IF improvement > 1500 THEN "Medium" ELSE "Low",
               description |-> "Adjusting drilling parameters can improve Rate of Penetration by approximately "
                               \o Fmt1(improvement) \o "%.",
               action_items |-> param_recommendations,
               expected_benefits |-> <<"Increase ROP by approximately "
                                       \o Fmt1(improvement) \o "%",
                                       "Reduce overall drilling time",
                                       "Improve drilling efficiency">>]>>
    ELSE <<>>

\* One pass of the loop of lines 309-357 (these entries have no
\* 'expected_benefits' key).
ModerateEntry(preds, agent, critical) ==
    LET prediction == preds[agent] IN
    IF agent = "rop_optimization" \/ prediction.kind = "None" THEN <<>>
    ELSE IF ~(Pct(40) <= prediction.probability /\ prediction.probability < Pct(70))
    THEN <<>>
    ELSE IF \E i \in 1..Len(critical) : critical[i].type = agent THEN <<>>
    ELSE IF agent = "mechanical_sticking" THEN
        <<[category |-> "Mechanical Sticking",
           title |-> "Moderate Risk of Mechanical Sticking",
           impact_level |-> "Medium",
           description |-> "Preventive action recommended to address potential mechanical sticking issues.",
           action_items |-> prediction.recommendations]>>
    ELSE IF agent = "differential_sticking" THEN
        <<[category |-> "Differential Sticking",
           title |-> "Moderate Risk of Differential Sticking",
           impact_level |-> "Medium",
           description |-> "Preventive action recommended to address potential differential sticking issues.",
           action_items |-> prediction.recommendations]>>
    ELSE IF agent = "hole_cleaning" THEN
        <<[category |-> "Hole Cleaning",
           title |-> "Moderate Hole Cleaning Concerns",
           impact_level |-> "Medium",
           description |-> "Preventive action recommended to improve hole cleaning efficiency.",
           action_items |-> prediction.recommendations]>>
    ELSE
        <<[category |-> IssueTypeOr(prediction, "Washout/Mud Losses"),
           title |-> "Moderate " \o IssueTypeOr(prediction, "Washout/Loss") \o " Risk",
           impact_level |-> "Medium",
           description |-> "Preventive action recommended to address potential "
                           \o IssueTypeOr(prediction, "washout or mud loss") \o " issues.",
           action_items |-> prediction.recommendations]>>

\* predictions.items() visits the keys in the order the dict was built
\* (app.py lines 64-70).
RECURSIVE ModerateEntries(_, _, _)
ModerateEntries(preds, agents, critical) ==
    IF agents = <<>> THEN <<>>
    ELSE ModerateEntry(preds, Head(agents), critical)
         \o ModerateEntries(preds, Tail(agents), critical)

get_recommendations(preds) ==
    IF \E a \in AllAgentSet : preds[a].kind = "None"
    THEN [raised |-> FALSE, list |-> <<>>]
    ELSE IF \E a \in AllAgentSet : preds[a].kind = "absent"
    THEN [raised |-> TRUE, list |-> <<>>]
    ELSE LET critical_issues == SortByProbability(CriticalIssues(preds))
         IN IF RopEntryRaises(preds, critical_issues)
            THEN [raised |-> TRUE, list |-> <<>>]
            ELSE
            [raised |-> FALSE,
             list |-> CriticalEntries(critical_issues)
                      \o RopEntry(preds, critical_issues)
                      \o ModerateEntries(preds, AllAgents, critical_issues)]

(***************************************************************************)
(* Readings.  drilling_data is a dict (kind "dict") or some other object   *)
(* (kind "not_a_dict").  A key of the dict holds a number, holds a value   *)
(* that is not a number (a string the WITSML parser kept, lines 188-190 of *)
(* witsml_connector.py), or is missing.  Numbers are integers in the unit  *)
(* noted at each use.                                                      *)
(***************************************************************************)
Num(n) == [t |-> "num", v |-> n]
Missing == [t |-> "missing", v |-> 0]
Str == [t |-> "str", v |-> 0]

\* drilling_data.get(key, default)
Get(d, key, default) == IF d[key].t = "missing" THEN Num(default) ELSE d[key]

\* Arithmetic or an ordering comparison on a non-number raises TypeError.
AnyStr(values) == \E i \in 1..Len(values) : values[i].t = "str"

\* Sub-features are integers in thousandths: F1 stands for 1.0.
F1 == 10 * 100

RECURSIVE SumSeq(_)
SumSeq(s) == IF s = <<>> THEN 0 ELSE Head(s) + SumSeq(Tail(s))

RECURSIVE SumSquares(_)
SumSquares(s) == IF s = <<>> THEN 0 ELSE Head(s) * Head(s) + SumSquares(Tail(s))

\* s[-n:] and s[:n]
LastN(s, n) == IF Len(s) <= n THEN s ELSE SubSeq(s, Len(s) - n + 1, Len(s))
FirstN(s, n) == IF Len(s) <= n THEN s ELSE SubSeq(s, 1, n)

RECURSIVE ISqrt(_)
ISqrt(n) ==
    IF n < 2 THEN n
    ELSE LET r == 2 * ISqrt(n \div 4)
         IN IF (r + 1) * (r + 1) <= n THEN r + 1 ELSE r

\* Len(s)^2 times the population variance of s, as np.std computes it
\* (the samples are shifted by s[1], which leaves the variance unchanged).
ScaledVariance(s) ==
    LET d == [i \in 1..Len(s) |-> s[i] - s[1]]
    IN Len(s) * SumSquares(d) - SumSeq(d) * SumSeq(d)

\* 'key' in drilling_data['time_series'] and its list
HasSeries(d, key) == d.time_series.present /\ Len(d.time_series[key]) > 0
Series(d, key) == d.time_series[key][1]

\* The dict every risk agent returns from its except branch.
ErrorResult(issue) ==
    RiskResult(0, <<"Error in prediction model">>,
               <<"Check system logs for errors">>, issue)

\* A probability left as computed, without the clamp.
Unclamped(p) == p

\* min(1.0, max(0.0, p)) on a probability
ClipProbability(p) == Min(One, Max(0, p))

(***************************************************************************)
(* MechanicalStickingAgent.predict                                         *)
(* WOB in klbs, Torque in kft-lbs, Drag_Factor in hundredths, RPM_std and  *)
(* WOB_std in tenths.                                                      *)
(***************************************************************************)
\* torque / wob of the last ten samples, in thousandths; a wob below 0.1
\* is replaced by 0.1.
RecentRatio(torque, wob) ==
    [i \in 1..Len(torque) |->
        IF wob[i] < 1 THEN 1000 * 10 * torque[i]
        ELSE (1000 * torque[i]) \div wob[i]]

MechanicalHistoricalFeature(d) ==
    IF HasSeries(d, "Torque") /\ HasSeries(d, "WOB")
       /\ Len(Series(d, "Torque")) > 10
    THEN LET recent_ratio == RecentRatio(LastN(Series(d, "Torque"), 10),
                                         LastN(Series(d, "WOB"), 10))
             early == SumSeq(FirstN(recent_ratio, 5))
             late == SumSeq(LastN(recent_ratio, 5))
         IN IF early > 0
            THEN Min(F1, Max(0, (F1 * 5 * (late - early)) \div early))
            ELSE 0
    ELSE 0

MechanicalFeatures(d) ==
    LET wob == Get(d, "WOB", 0).v
        torque == Get(d, "Torque", 0).v
        drag_factor == Get(d, "Drag_Factor", 100).v
        rpm_std == Get(d, "RPM_std", 0).v
        wob_std == Get(d, "WOB_std", 0).v
    IN [torque_feature |-> Min(F1, (F1 * 100 * torque) \div (45 * Max(1, wob))),
        drag_feature |-> Min(F1, (F1 * drag_factor) \div 130),
        rpm_fluctuation |-> Min(F1, (F1 * rpm_std) \div 25),
        wob_fluctuation |-> Min(F1, (F1 * wob_std) \div 12),
        historical_feature |-> MechanicalHistoricalFeature(d)]

\* The weighted sum of lines 92-97; fluctuation_feature is the mean of the
\* two fluctuations, so each carries half of its weight.
MechanicalScore(f) ==
    25 * f.torque_feature + 25 * f.drag_feature
    + 10 * (f.rpm_fluctuation + f.wob_fluctuation)
    + 30 * f.historical_feature

MechanicalFactors(f) ==
    (IF f.torque_feature > 600 THEN <<"High torque to WOB ratio">> ELSE <<>>)
    \o (IF f.drag_feature > 600 THEN <<"Elevated drag factor">> ELSE <<>>)
    \o (IF f.rpm_fluctuation + f.wob_fluctuation > 2 * 600
        THEN <<"Significant RPM and WOB fluctuations">> ELSE <<>>)
    \o (IF f.historical_feature > 600
        THEN <<"Worsening trend in torque/WOB ratio">> ELSE <<>>)

MechanicalFault(d) ==
    \/ d.kind # "dict"
    \/ AnyStr(<<d.WOB, d.Torque, d.Drag_Factor, d.RPM_std, d.WOB_std>>)

MechanicalStickingPredict(d) ==
    IF MechanicalFault(d) THEN ErrorResult(<<>>)
    ELSE LET f == MechanicalFeatures(d)
             sticking_probability == ClipProbability(MechanicalScore(f))
             contributing_factors == MechanicalFactors(f)
         IN RiskResult(sticking_probability, contributing_factors,
                       MechanicalRecommendations(sticking_probability,
                                                 contributing_factors),
                       <<>>)

(***************************************************************************)
(* DifferentialStickingAgent.predict                                       *)
(* differential_pressure in psi, ECD in tenths of ppg, Flow_Rate in gpm.   *)
(***************************************************************************)
\* A count that rotation does not reset.
RECURSIVE StationaryCountNoReset(_, _)
StationaryCountNoReset(rpm_series, count) ==
    IF rpm_series = <<>> THEN count
    ELSE StationaryCountNoReset(Tail(rpm_series),
                                IF Head(rpm_series) < 5 THEN count + 1
                                ELSE count)

\* The loop of lines 61-67 over rpm_series[-10:].
RECURSIVE StationaryCount(_, _)
StationaryCount(rpm_series, count) ==
    IF rpm_series = <<>> THEN count
    ELSE StationaryCount(Tail(rpm_series),
                         IF Head(rpm_series) < 5 THEN count + 1 ELSE 0)

StationaryFeature(d) ==
    IF HasSeries(d, "RPM") /\ Len(Series(d, "RPM")) > 5
    THEN LET stationary_minutes == StationaryCount(LastN(Series(d, "RPM"), 10), 0)
         IN Min(F1, (F1 * stationary_minutes) \div 15)
    ELSE 0

FilterCakeFeature(flow_rate, ecd) ==
    LET from_flow == IF flow_rate > 0
                     THEN (7 * Min(F1, (F1 * 500) \div flow_rate)) \div 10
                     ELSE 0
    IN IF ecd > 100
       THEN Max(from_flow, Min(F1, (F1 * (ecd - 100)) \div 40))
       ELSE from_flow

DifferentialFeatures(d) ==
    LET differential_pressure == Get(d, "differential_pressure", 0).v
        ecd == Get(d, "ECD", 125).v
        flow_rate == Get(d, "Flow_Rate", 0).v
    IN [diff_pressure_feature |-> Min(F1, (F1 * differential_pressure) \div 600),
        stationary_feature |-> StationaryFeature(d),
        wellbore_feature |-> F1 \div 2,
        filter_cake_feature |-> FilterCakeFeature(flow_rate, ecd)]

\* DifferentialScore with the differential pressure feature inverted.
DifferentialScorePressureInverted(f) ==
    35 * (F1 - f.diff_pressure_feature) + 25 * f.stationary_feature
    + 15 * f.wellbore_feature + 25 * f.filter_cake_feature

DifferentialScore(f) ==
    35 * f.diff_pressure_feature + 25 * f.stationary_feature
    + 15 * f.wellbore_feature + 25 * f.filter_cake_feature

DifferentialFactors(f) ==
    (IF f.diff_pressure_feature > 600 THEN <<"High differential pressure">> ELSE <<>>)
    \o (IF f.stationary_feature > 500 THEN <<"Extended stationary time">> ELSE <<>>)
    \o (IF f.wellbore_feature > 700 THEN <<"High wellbore inclination">> ELSE <<>>)
    \o (IF f.filter_cake_feature > 600
        THEN <<"Significant filter cake buildup potential">> ELSE <<>>)

DifferentialFault(d) ==
    \/ d.kind # "dict"
    \/ AnyStr(<<d.differential_pressure, d.Flow_Rate, d.ECD>>)

DifferentialStickingPredict(d) ==
    IF DifferentialFault(d) THEN ErrorResult(<<>>)
    ELSE LET f == DifferentialFeatures(d)
             sticking_probability == ClipProbability(DifferentialScore(f))
             contributing_factors == DifferentialFactors(f)
         IN RiskResult(sticking_probability, contributing_factors,
                       DifferentialRecommendations(sticking_probability,
                                                   contributing_factors),
                       <<>>)

(***************************************************************************)
(* HoleCleaningAgent.predict                                               *)
(* ROP in ft/hr, Flow_Rate in gpm, hole_cleaning_index in hundredths; the  *)
(* ECD series in tenths of ppg, the SPP series in psi, the Torque series   *)
(* in kft-lbs.                                                             *)
(***************************************************************************)
\* min(1.0, rop_flow_ratio / 0.15), the ratio being 1.0 without flow
RopFlowFeature(rop, flow_rate) ==
    IF flow_rate > 0 THEN Min(F1, (F1 * 40 * rop) \div flow_rate) ELSE F1

EcdTrendFeature(d) ==
    IF HasSeries(d, "ECD") /\ Len(Series(d, "ECD")) > 10
    THEN LET early == SumSeq(FirstN(Series(d, "ECD"), 5))
             late == SumSeq(LastN(Series(d, "ECD"), 5))
         IN Max(0, Min(F1, (F1 * (late - early)) \div 15))
    ELSE 0

PressureFluctuationFeature(d) ==
    IF HasSeries(d, "SPP") /\ Len(Series(d, "SPP")) > 10
    THEN LET spp_std == ISqrt(ScaledVariance(LastN(Series(d, "SPP"), 10)))
         IN Min(F1, (F1 * spp_std) \div 1500)
    ELSE 0

TorqueTrendFeature(d) ==
    IF HasSeries(d, "Torque") /\ Len(Series(d, "Torque")) > 10
    THEN LET early == SumSeq(FirstN(Series(d, "Torque"), 5))
             late == SumSeq(LastN(Series(d, "Torque"), 5))
         IN IF early > 0
            THEN Max(0, Min(F1, (F1 * 5 * (late - early)) \div early))
            ELSE 0
    ELSE 0

HoleCleaningFeatures(d) ==
    LET rop == Get(d, "ROP", 0).v
        flow_rate == Get(d, "Flow_Rate", 0).v
        hole_cleaning_index == Get(d, "hole_cleaning_index", 100).v
    IN [rop_flow_feature |-> RopFlowFeature(rop, flow_rate),
        ecd_feature |-> EcdTrendFeature(d),
        pressure_feature |-> PressureFluctuationFeature(d),
        torque_feature |-> TorqueTrendFeature(d),
        historical_feature |-> Min(F1, Max(0, 20 * (hole_cleaning_index - 100)))]

HoleCleaningScore(f) ==
    25 * f.rop_flow_feature + 25 * f.ecd_feature + 20 * f.pressure_feature
    + 15 * f.torque_feature + 15 * f.historical_feature

HoleCleaningFactors(f) ==
    (IF f.rop_flow_feature > 600 THEN <<"High ROP relative to flow rate">> ELSE <<>>)
    \o (IF f.ecd_feature > 600 THEN <<"Increasing ECD trend">> ELSE <<>>)
    \o (IF f.pressure_feature > 600
        THEN <<"Significant pressure fluctuations">> ELSE <<>>)
    \o (IF f.torque_feature > 600 THEN <<"Increasing torque trend">> ELSE <<>>)
    \o (IF f.historical_feature > 600
        THEN <<"Poor hole cleaning efficiency">> ELSE <<>>)

\* rop is only divided when flow_rate > 0 holds.
HoleCleaningFault(d) ==
    \/ d.kind # "dict"
    \/ d.Flow_Rate.t = "str"
    \/ (d.ROP.t = "str" /\ Get(d, "Flow_Rate", 0).v > 0)
    \/ d.hole_cleaning_index.t = "str"

HoleCleaningPredict(d) ==
    IF HoleCleaningFault(d) THEN ErrorResult(<<>>)
    ELSE LET f == HoleCleaningFeatures(d)
             cleaning_issue_probability == ClipProbability(HoleCleaningScore(f))
             contributing_factors == HoleCleaningFactors(f)
         IN RiskResult(cleaning_issue_probability, contributing_factors,
                       HoleCleaningRecommendations(cleaning_issue_probability,
                                                   contributing_factors),
                       <<>>)

(***************************************************************************)
(* WashoutMudLossesAgent.predict                                           *)
(* return_flow_ratio is the value np.random.uniform(0.85, 1.05) drew, in   *)
(* thousandths.                                                            *)
(***************************************************************************)
\* np.diff
Diffs(s) == [i \in 1..(Len(s) - 1) |-> s[i + 1] - s[i]]

RECURSIVE MinSeq(_)
MinSeq(s) == IF Len(s) = 1 THEN s[1] ELSE Min(Head(s), MinSeq(Tail(s)))

PressureDropFeature(d) ==
    IF HasSeries(d, "SPP") /\ Len(Series(d, "SPP")) > 10
    THEN LET spp_diff == Diffs(LastN(Series(d, "SPP"), 10))
         IN IF \E i \in 1..Len(spp_diff) : spp_diff[i] < -50
            THEN Min(F1, (F1 * (0 - MinSeq(spp_diff))) \div 200)
            ELSE 0
    ELSE 0

FlowReturnFeature(return_flow_ratio) ==
    IF return_flow_ratio < 900
    THEN Min(F1, (900 - return_flow_ratio) * 10)
    ELSE 0

\* Windows spp_series[i:i+5], i in range(len - 5), whose np.std exceeds 50.
PressureAnomalyFeature(d) ==
    IF HasSeries(d, "SPP") /\ Len(Series(d, "SPP")) > 15
    THEN LET spp_series == Series(d, "SPP")
             spikes == {i \in 1..(Len(spp_series) - 5) :
                          ScaledVariance(SubSeq(spp_series, i, i + 4))
                          > 25 * 50 * 50}
         IN Min(F1, (F1 * Cardinality(spikes)) \div 3)
    ELSE 0

TorqueFluctuationFeature(d) ==
    IF HasSeries(d, "Torque") /\ Len(Series(d, "Torque")) > 10
    THEN LET torque_std == ISqrt(ScaledVariance(LastN(Series(d, "Torque"), 10)))
         IN Min(F1, (F1 * torque_std) \div 20)
    ELSE 0

WashoutFeatures(d, return_flow_ratio) ==
    [pressure_drop_feature |-> PressureDropFeature(d),
     flow_return_feature |-> FlowReturnFeature(return_flow_ratio),
     pressure_anomaly_feature |-> PressureAnomalyFeature(d),
     torque_fluctuation_feature |-> TorqueFluctuationFeature(d)]

WashoutScore(f) ==
    30 * f.pressure_drop_feature + 30 * f.flow_return_feature
    + 20 * f.pressure_anomaly_feature + 20 * f.torque_fluctuation_feature

WashoutFactors(f) ==
    (IF f.pressure_drop_feature > 600
     THEN <<"Significant standpipe pressure drops">> ELSE <<>>)
    \o (IF f.flow_return_feature > 600 THEN <<"Reduced fluid returns">> ELSE <<>>)
    \o (IF f.pressure_anomaly_feature > 600
        THEN <<"Erratic pressure behavior">> ELSE <<>>)
    \o (IF f.torque_fluctuation_feature > 600
        THEN <<"Unusual torque fluctuations">> ELSE <<>>)

WashoutIssueType(f) ==
    IF f.flow_return_feature > f.pressure_drop_feature
    THEN "Mud Losses" ELSE "Washout"

WashoutFault(d) == d.kind # "dict"

WashoutMudLossesPredict(d, return_flow_ratio) ==
    IF WashoutFault(d) THEN ErrorResult(<<"Unknown">>)
    ELSE LET f == WashoutFeatures(d, return_flow_ratio)
             washout_mud_loss_probability == ClipProbability(WashoutScore(f))
             contributing_factors == WashoutFactors(f)
             issue_type == WashoutIssueType(f)
         IN RiskResult(washout_mud_loss_probability, contributing_factors,
                       WashoutRecommendations(washout_mud_loss_probability,
                                              contributing_factors, issue_type),
                       <<issue_type>>)

(***************************************************************************)
(* ROPOptimizationAgent                                                    *)
(* WOB in klbs, RPM, Flow_Rate in gpm, Torque in kft-lbs, SPP and MSE in   *)
(* psi, ROP in ft/hr.  Recommended parameters and the expected improvement *)
(* are kept in hundredths.  The agent's state is the record                *)
(* [X, y, data_counter, is_trained].                                       *)
(***************************************************************************)
history_window == 20
training_frequency == 10

\* A row of training_data['X'] is the features list of lines 77-85.
RopFeatures(d) ==
    <<Get(d, "WOB", 0), Get(d, "RPM", 0), Get(d, "Flow_Rate", 0),
      Get(d, "Torque", 0), Get(d, "SPP", 0), Get(d, "ECD", 125),
      Get(d, "MSE", 30000)>>

\* model.fit raises on a row that holds a non-number; _train_model logs it.
TrainModel(st) ==
    IF Len(st.X) >= 5
       /\ \A i \in 1..Len(st.X) : ~AnyStr(st.X[i])
    THEN [st EXCEPT !.is_trained = TRUE]
    ELSE st

\* A buffer that is cut to its oldest rows.
UpdateTrainingDataKeepsOldest(st, d) ==
    IF d.kind # "dict" \/ Get(d, "ROP", 0).t = "str" THEN st
    ELSE IF Get(d, "ROP", 0).v > 0 THEN
        [st EXCEPT !.X = FirstN(Append(st.X, RopFeatures(d)), 20),
                   !.y = FirstN(Append(st.y, Get(d, "ROP", 0).v), 20),
                   !.data_counter = st.data_counter + 1]
    ELSE st

\* _update_training_data: every exception is caught and logged.
UpdateTrainingData(st, d) ==
    IF d.kind # "dict" \/ Get(d, "ROP", 0).t = "str" THEN st
    ELSE IF Get(d, "ROP", 0).v > 0 THEN
        LET appended == [st EXCEPT !.X = LastN(Append(st.X, RopFeatures(d)),
                                               history_window),
                                   !.y = LastN(Append(st.y, Get(d, "ROP", 0).v),
                                               history_window),
                                   !.data_counter = st.data_counter + 1]
        IN IF appended.data_counter % training_frequency = 0
           THEN TrainModel(appended) ELSE appended
    ELSE st

\* The log of the samples handed to the agent: a reading with a ROP above
\* 0 adds its features and its ROP, any other reading adds nothing.
Arrived(log, d) ==
    IF d.kind = "dict" /\ Get(d, "ROP", 0).t = "num" /\ Get(d, "ROP", 0).v > 0
    THEN Append(log, [features |-> RopFeatures(d), target |-> Get(d, "ROP", 0).v])
    ELSE log

\* np.arange(start, stop, step)
RECURSIVE Arange(_, _, _)
Arange(start, stop, step) ==
    IF start >= stop THEN <<>>
    ELSE <<start>> \o Arange(start + step, stop, step)

SeqToSet(s) == {s[i] : i \in 1..Len(s)}

\* _get_default_recommendations; raises TypeError on a non-number it
\* multiplies or compares, AttributeError on a reading that is no dict.
DefaultRecommendationsRaise(d) ==
    \/ d.kind # "dict"
    \/ AnyStr(<<d.WOB, d.RPM, d.MSE, d.ROP>>)

DefaultRecommendations(d) ==
    LET current_wob == Get(d, "WOB", 20).v
        current_rpm == Get(d, "RPM", 120).v
        mse == Get(d, "MSE", 30000).v
    IN [recommended_parameters |->
            [WOB |-> Num(IF mse > 35000 THEN Min(110 * current_wob, 100 * 50)
                         ELSE Min(105 * current_wob, 100 * 50)),
             RPM |-> Num(IF mse > 35000 THEN Max(90 * current_rpm, 100 * 60)
                         ELSE Min(105 * current_rpm, 100 * 180)),
             Flow_Rate |-> IF Get(d, "Flow_Rate", 600).t = "str" THEN Str
                           ELSE Num(100 * Get(d, "Flow_Rate", 600).v)],
        expected_rop |-> <<110 * Get(d, "ROP", 0).v>>,
        expected_rop_improvement |-> 1000]

\* The grid of lines 146-156.
WobRange(d) ==
    Arange(Max(5, Get(d, "WOB", 20).v - 2 * 2),
           Min(50, Get(d, "WOB", 20).v + 2 * 2), 2)
RpmRange(d) ==
    Arange(Max(60, Get(d, "RPM", 120).v - 2 * 10),
           Min(180, Get(d, "RPM", 120).v + 2 * 10), 10)

\* The try block of _optimize_parameters raises: a non-number among the
\* values it computes with, or the division by a zero flow (the divisions
\* by current_wob and current_rpm are only reached with a non-empty grid,
\* which a zero WOB or RPM leaves empty).
SearchRaises(d) ==
    \/ d.kind # "dict"
    \/ AnyStr(<<d.WOB, d.RPM>>)
    \/ /\ WobRange(d) # <<>> /\ RpmRange(d) # <<>>
       /\ \/ AnyStr(<<d.Torque, d.SPP, d.Flow_Rate, d.ECD, d.MSE>>)
          \/ Get(d, "Flow_Rate", 600).v = 0
    \/ d.ROP.t = "str"

\* Grid points that pass the torque and pressure constraints of line 180
\* (flow is held at current_flow, so est_spp is spp).
SearchCandidates(d) ==
    LET current_wob == Get(d, "WOB", 20).v
        current_rpm == Get(d, "RPM", 120).v
        torque == Get(d, "Torque", 10).v
        spp == Get(d, "SPP", 3500).v
    IN {c \in SeqToSet(WobRange(d)) \X SeqToSet(RpmRange(d)) :
          /\ torque * c[1] * c[2] <= 15 * current_wob * current_rpm
          /\ spp <= 4500}

\* The regression model is fitted to data; which candidate it predicts the
\* highest ROP for, and that ROP (in hundredths of ft/hr), is the choice
\* `fit`: [found |-> FALSE] when no candidate is predicted above 0.
SearchResult(d, fit) ==
    LET current_rop == Get(d, "ROP", 0).v
        best_rop == IF fit.found THEN fit.rop ELSE 0
    IN [recommended_parameters |->
            [WOB |-> Num(100 * (IF fit.found THEN fit.wob
                                ELSE Get(d, "WOB", 20).v)),
             RPM |-> Num(100 * (IF fit.found THEN fit.rpm
                                ELSE Get(d, "RPM", 120).v)),
             Flow_Rate |-> IF Get(d, "Flow_Rate", 600).t = "str" THEN Str
                           ELSE Num(100 * Get(d, "Flow_Rate", 600).v)],
        expected_rop |-> <<best_rop>>,
        expected_rop_improvement |->
            IF current_rop > 0
            THEN (100 * (best_rop - 100 * current_rop)) \div current_rop
            ELSE 0]

\* The choices `fit` the search may return on reading d.
Fits(d, predicted_rops) ==
    {[found |-> FALSE, wob |-> 0, rpm |-> 0, rop |-> 0]}
    \cup (IF d.kind = "dict" /\ ~SearchRaises(d)
          THEN {[found |-> TRUE, wob |-> c[1], rpm |-> c[2], rop |-> r] :
                   c \in SearchCandidates(d), r \in predicted_rops}
          ELSE {})

\* _optimize_parameters: [raised, value]
OptimizeParameters(st, d, fit) ==
    IF st.is_trained /\ ~SearchRaises(d)
    THEN [raised |-> FALSE, value |-> SearchResult(d, fit)]
    ELSE IF DefaultRecommendationsRaise(d)
    THEN [raised |-> TRUE, value |-> <<>>]
    ELSE [raised |-> FALSE, value |-> DefaultRecommendations(d)]

RopExplanations(d, rec_params) ==
    LET current_wob == 100 * Get(d, "WOB", 0).v
        current_rpm == 100 * Get(d, "RPM", 0).v
        wob == rec_params.WOB.v
        rpm == rec_params.RPM.v
    IN (IF wob - current_wob > 100 \/ current_wob - wob > 100
        THEN <<IF wob > current_wob
               THEN "Recommend increase in Weight on Bit for better ROP performance"
               ELSE "Recommend decrease in Weight on Bit for better ROP performance">>
        ELSE <<>>)
       \o (IF rpm - current_rpm > 500 \/ current_rpm - rpm > 500
           THEN <<IF rpm > current_rpm
                  THEN "Recommend increase in RPM to optimize drilling efficiency"
                  ELSE "Recommend decrease in RPM to optimize drilling efficiency">>
           ELSE <<>>)

RopLimitingFactors(d) ==
    (IF Get(d, "MSE", 30000).v > 35000
     THEN <<"High mechanical specific energy indicating inefficient drilling">>
     ELSE <<>>)
    \o (IF 10 * Get(d, "SPP", 0).v > 8 * 4500
        THEN <<"Approaching maximum allowable standpipe pressure">> ELSE <<>>)
    \o (IF 10 * Get(d, "Torque", 0).v > 8 * 15
        THEN <<"Approaching maximum allowable torque">> ELSE <<>>)

\* The dict of lines 294-302 (it has no 'recommendations' and no
\* 'contributing_factors' key).
RopResult(d, opt) ==
    [kind |-> "result",
     probability |-> Pct(90),
     recommended_parameters |-> <<opt.recommended_parameters>>,
     expected_rop |-> opt.expected_rop,
     expected_rop_improvement |-> <<opt.expected_rop_improvement>>,
     limiting_factors |-> RopLimitingFactors(d),
     explanations |-> <<RopExplanations(d, opt.recommended_parameters)>>]

\* The dict of the except branch, lines 309-320.
RopErrorResult(d) ==
    [kind |-> "result",
     probability |-> 0,
     recommended_parameters |->
         <<[WOB |-> IF Get(d, "WOB", 0).t = "str" THEN Str
                    ELSE Num(100 * Get(d, "WOB", 0).v),
            RPM |-> IF Get(d, "RPM", 0).t = "str" THEN Str
                    ELSE Num(100 * Get(d, "RPM", 0).v),
            Flow_Rate |-> IF Get(d, "Flow_Rate", 0).t = "str" THEN Str
                          ELSE Num(100 * Get(d, "Flow_Rate", 0).v)]>>,
     expected_rop |-> <<>>,
     expected_rop_improvement |-> <<0>>,
     limiting_factors |-> <<"Error in optimization model">>,
     explanations |-> <<<<"Check system logs for errors">>>>]

\* The try block of predict raises.
RopPredictFault(st, d, fit) ==
    \/ OptimizeParameters(st, d, fit).raised
    \/ AnyStr(<<d.MSE, d.SPP, d.Torque, d.WOB, d.RPM>>)

\* ROPOptimizationAgent.predict: [raised, result, state].  The except
\* branch calls drilling_data.get again, which raises on a reading that is
\* no dict; nothing catches that.
RopOptimizationPredict(st, d, fit) ==
    LET updated == UpdateTrainingData(st, d) IN
    IF d.kind # "dict"
    THEN [raised |-> TRUE, result |-> None, state |-> updated]
    ELSE IF RopPredictFault(updated, d, fit)
    THEN [raised |-> FALSE, result |-> RopErrorResult(d), state |-> updated]
    ELSE [raised |-> FALSE,
          result |-> RopResult(d, OptimizeParameters(updated, d, fit).value),
          state |-> updated]

(***************************************************************************)
(* Readings as dicts.  A data point is flat: it has no 'time_series' key   *)
(* unless the caller of predict supplies one.                              *)
(***************************************************************************)
NoTimeSeries ==
    [present |-> FALSE, Torque |-> <<>>, WOB |-> <<>>, RPM |-> <<>>,
     ECD |-> <<>>, SPP |-> <<>>]

ReadingKeys ==
    {"depth", "WOB", "ROP", "RPM", "Torque", "SPP", "Flow_Rate", "ECD",
     "hook_load", "Hook_Load", "MSE", "differential_pressure",
     "hole_cleaning_index", "drag_factor", "Drag_Factor", "RPM_std",
     "WOB_std"}

EmptyDict ==
    [k \in ReadingKeys \cup {"kind", "time_series"} |->
        IF k = "kind" THEN "dict"
        ELSE IF k = "time_series" THEN NoTimeSeries
        ELSE Missing]

\* An argument of predict that is no mapping (None, a list, a number).
NotADict == [EmptyDict EXCEPT !.kind = "not_a_dict"]

Has(d, key) == d[key].t # "missing"

(***************************************************************************)
(* witsml_connector.calculate_derived_parameters                           *)
(* depth in ft, hook_load in klbs; drag_factor in hundredths.              *)
(***************************************************************************)
DerivedParametersRaise(data) ==
    \/ /\ Has(data, "WOB") /\ Has(data, "RPM")
       /\ Has(data, "Torque") /\ Has(data, "ROP")
       /\ \/ data.ROP.t = "str"
          \/ data.ROP.v > 0 /\ AnyStr(<<data.WOB, data.RPM, data.Torque>>)
    \/ /\ Has(data, "depth") /\ Has(data, "ECD")
       /\ AnyStr(<<data.depth, data.ECD>>)
    \/ /\ Has(data, "Flow_Rate") /\ Has(data, "RPM") /\ Has(data, "ROP")
       /\ \/ data.Flow_Rate.t = "str"
          \/ /\ data.Flow_Rate.v > 0
             /\ \/ data.RPM.t = "str"
                \/ data.RPM.v > 0 /\ data.ROP.t = "str"
    \/ /\ Has(data, "hook_load") /\ Has(data, "depth")
       /\ \/ data.depth.t = "str"
          \/ data.depth.v > 0 /\ data.hook_load.t = "str"

\* 4*wob*1000 / (3.14159*8.5^2) + 480*rpm*torque / (3.14159*8.5^2*rop), psi
DerivedMSE(data) ==
    IF Has(data, "WOB") /\ Has(data, "RPM")
       /\ Has(data, "Torque") /\ Has(data, "ROP") /\ data.ROP.v > 0
    THEN (100 * (4000 * data.WOB.v * data.ROP.v
                 + 480 * data.RPM.v * data.Torque.v))
         \div (22698 * data.ROP.v)
    ELSE 0

\* max(0, 0.052*ecd*depth - 0.45*depth), psi
DerivedDifferentialPressure(data) ==
    IF Has(data, "depth") /\ Has(data, "ECD")
    THEN Max(0, (data.depth.v * (52 * data.ECD.v - 4500)) \div 10000)
    ELSE 0

\* min(1, max(0.1, 0.5 + 0.3*flow/800 + 0.2*rpm/150 - 0.1*rop/50))
DerivedHoleCleaningIndex(data) ==
    IF Has(data, "Flow_Rate") /\ Has(data, "RPM") /\ Has(data, "ROP")
       /\ data.Flow_Rate.v > 0 /\ data.RPM.v > 0
    THEN Min(100, Max(10, (12000 + 9 * data.Flow_Rate.v + 32 * data.RPM.v
                           - 48 * data.ROP.v) \div 240))
    ELSE 10

\* min(1, max(0.1, hook_load / (depth * 0.02)))
DerivedDragFactor(data) ==
    IF Has(data, "hook_load") /\ Has(data, "depth") /\ data.depth.v > 0
    THEN Min(100, Max(10, (5000 * data.hook_load.v) \div data.depth.v))
    ELSE 10

calculate_derived_parameters(data) ==
    IF DerivedParametersRaise(data) THEN data
    ELSE [data EXCEPT
            !.MSE = Num(DerivedMSE(data)),
            !.differential_pressure = Num(DerivedDifferentialPressure(data)),
            !.hole_cleaning_index = Num(DerivedHoleCleaningIndex(data)),
            !.drag_factor = Num(DerivedDragFactor(data))]

(***************************************************************************)
(* data_processor.process_data                                             *)
(* d_exp and the rolling statistics of a 'time_series' key are left out:   *)
(* no agent reads d_exp, and a data point carries no 'time_series'.        *)
(***************************************************************************)
\* The MSE of line 39 is computed only when the key is not there; a
\* non-number in it is the one fault the inner try blocks do not catch.
ProcessDataRaises(raw_data) ==
    /\ ~Has(raw_data, "MSE")
    /\ AnyStr(<<raw_data.WOB, raw_data.RPM, raw_data.Torque, raw_data.ROP>>)

\* (4*pi*wob*rpm*torque) / (max(0.1, rop) * 8.5^2)
ProcessedMSE(d) ==
    IF Has(d, "MSE") THEN d.MSE
    ELSE Num((1739 * Get(d, "WOB", 0).v * Get(d, "RPM", 0).v
              * Get(d, "Torque", 0).v)
             \div (1000 * Max(1, 10 * d.ROP.v)))

\* Hook_Load / max(1, depth*0.95*30/1000), in hundredths
ProcessedDragFactor(d) ==
    IF Has(d, "Hook_Load") /\ Has(d, "depth")
       /\ ~AnyStr(<<d.Hook_Load, d.depth>>)
    THEN Num((100 * 10000 * d.Hook_Load.v)
             \div Max(10000, 285 * d.depth.v))
    ELSE Num(100)

\* ecd*0.052*depth - 0.465*depth, psi; 500 when that raises
ProcessedDifferentialPressure(d) ==
    IF AnyStr(<<d.ECD, d.depth>>) THEN Num(500)
    ELSE Num((Get(d, "depth", 10000).v * (52 * Get(d, "ECD", 125).v - 4650))
             \div 10000)

\* ecd / max(ecd - 0.2, 8.0), in hundredths; 1.0 when that raises
ProcessedHoleCleaningIndex(d) ==
    IF d.ECD.t = "str" THEN Num(100)
    ELSE Num((100 * Get(d, "ECD", 125).v)
             \div Max(Get(d, "ECD", 125).v - 2, 80))

process_data(raw_data) ==
    IF raw_data.kind = "None" THEN None
    ELSE IF ProcessDataRaises(raw_data) THEN raw_data
    ELSE [raw_data EXCEPT
            !.MSE = ProcessedMSE(raw_data),
            !.Drag_Factor = ProcessedDragFactor(raw_data),
            !.differential_pressure = ProcessedDifferentialPressure(raw_data),
            !.hole_cleaning_index = ProcessedHoleCleaningIndex(raw_data)]

(***************************************************************************)
(* Initial values of the state the application builds at start-up, and    *)
(* the values a part of the state holds while a specification does not    *)
(* exercise it.                                                            *)
(***************************************************************************)
\* app.py lines 64-70
InitialPredictions == [a \in AllAgentSet |-> None]

\* ROPOptimizationAgent.__init__; is_trained is TRUE when rop_model.pkl
\* was found and loaded.
NewRopAgent(pretrained) ==
    [X |-> <<>>, y |-> <<>>, data_counter |-> 0, is_trained |-> pretrained]

\* The threshold values of config_manager.get_default_config, lines 47-62.
DefaultThresholds ==
    [a \in RiskAgentSet |->
        IF a = "mechanical_sticking" THEN Pct(60)
        ELSE IF a = "washout_mud_losses" THEN Pct(70)
        ELSE Pct(65)]

\* The sensitivity values of get_default_config, lines 48-68, in percent.
DefaultSensitivity ==
    [a \in AllAgentSet |->
        IF a \in {"mechanical_sticking", "washout_mud_losses"} THEN 80
        ELSE IF a = "differential_sticking" THEN 70
        ELSE IF a = "hole_cleaning" THEN 75
        ELSE 50]

\* Thresholds an operator may configure instead.
LowThresholds == [a \in RiskAgentSet |-> Pct(30)]
HighThresholds == [a \in RiskAgentSet |-> Pct(80)]
ThresholdMaps == {DefaultThresholds, LowThresholds, HighThresholds}

\* st.session_state.config as update_data reads it: the keys 'thresholds'
\* and 'update_frequency', each there or not.  get_default_config returns
\* a dict that has neither (its thresholds sit under 'ml_agents').
DefaultConfig == [thresholds |-> <<>>, update_frequency |-> <<>>]
OperatorConfig(thr) == [thresholds |-> <<thr>>, update_frequency |-> <<5>>]

IdleOrchestrator ==
    /\ thresholds = DefaultThresholds
    /\ new_alerts = <<>>
    /\ eval_call = "not_called"
    /\ recommendations = <<>>
    /\ recs_call = "not_called"

IdleAgents ==
    /\ called = "none"
    /\ call_raised = FALSE
    /\ result = None

IdleDriver ==
    /\ connection_status = FALSE
    /\ pc = "idle"
    /\ new_data = None
    /\ alerts = <<>>
    /\ config = DefaultConfig
    /\ cycle = 0

IdleDerivation ==
    /\ raw_reading = None
    /\ derive_calls = <<>>

IdleHistory ==
    /\ generated_alerts = <<>>
    /\ rop_arrivals = <<>>
    /\ loops = <<>>

orchestrator_vars ==
    <<thresholds, new_alerts, eval_call, recommendations, recs_call>>
agent_vars == <<called, call_raised, result>>
derive_vars == <<raw_reading, derive_calls>>
history_vars == <<generated_alerts, rop_arrivals>>
driver_vars == <<connection_status, pc, new_data, alerts, config, cycle>>

(***************************************************************************)
(* Sample readings.                                                        *)
(***************************************************************************)
\* A data point in the middle of the ranges of generate_simulated_data.
SimulatedPoint ==
    [EmptyDict EXCEPT !.depth = Num(10000), !.WOB = Num(25), !.ROP = Num(60),
                      !.RPM = Num(120), !.Torque = Num(8), !.SPP = Num(3500),
                      !.Flow_Rate = Num(600), !.ECD = Num(125),
                      !.hook_load = Num(200)]

\* What update_data hands to the agents for that point.
BaseReading == process_data(calculate_derived_parameters(SimulatedPoint))

Repeat(x, n) == [i \in 1..n |-> x]

\* time_series dicts; all lists of one dict have the same length.
ShortSeries ==
    [present |-> TRUE, Torque |-> <<Repeat(8, 3)>>, WOB |-> <<Repeat(25, 3)>>,
     RPM |-> <<Repeat(120, 3)>>, ECD |-> <<Repeat(125, 3)>>,
     SPP |-> <<Repeat(3500, 3)>>]
SteadySeries ==
    [present |-> TRUE, Torque |-> <<Repeat(8, 11)>>, WOB |-> <<Repeat(25, 11)>>,
     RPM |-> <<Repeat(120, 11)>>, ECD |-> <<Repeat(125, 11)>>,
     SPP |-> <<Repeat(3500, 11)>>]
TroubledSeries ==
    [present |-> TRUE,
     Torque |-> <<Repeat(8, 8) \o <<9, 12, 11, 15, 13, 18, 14, 19>>>>,
     WOB |-> <<Repeat(25, 12) \o <<20, 15, 10, 5>>>>,
     RPM |-> <<Repeat(120, 9) \o <<60, 4, 0, 0, 0, 0, 0>>>>,
     ECD |-> <<Repeat(125, 8) \o <<126, 127, 128, 130, 131, 133, 134, 136>>>>,
     SPP |-> <<Repeat(3500, 8)
               \o <<3400, 3200, 3300, 3000, 3100, 2800, 2900, 2600>>>>]
SeriesSamples == {NoTimeSeries, ShortSeries, SteadySeries, TroubledSeries}

\* Readings that exercise the mechanical sticking agent, and so on.
MechanicalReadings ==
    {[BaseReading EXCEPT !.Torque = t, !.WOB = w, !.Drag_Factor = g,
                         !.RPM_std = f, !.time_series = ts] :
        t \in {Num(8), Num(0 - 5), Num(40), Str},
        w \in {Num(25), Num(0)},
        g \in {Num(100), Num(300), Missing},
        f \in {Missing, Num(400)},
        ts \in SeriesSamples}

DifferentialReadings ==
    {[BaseReading EXCEPT !.differential_pressure = p, !.ECD = e,
                         !.Flow_Rate = f, !.time_series = ts] :
        p \in {Num(1850), Num(0 - 230), Num(200), Num(450), Num(3000),
               Missing, Str},
        e \in {Num(125), Num(90), Num(300)},
        f \in {Num(600), Num(0), Num(100), Str},
        ts \in {NoTimeSeries, TroubledSeries}}

HoleCleaningReadings ==
    {[BaseReading EXCEPT !.ROP = r, !.Flow_Rate = f,
                         !.hole_cleaning_index = h, !.time_series = ts] :
        r \in {Num(60), Num(0), Num(400), Str},
        f \in {Num(600), Num(0), Num(0 - 50), Str},
        h \in {Num(101), Num(250), Num(50), Missing, Str},
        ts \in {NoTimeSeries, TroubledSeries}}

WashoutReadings ==
    {[BaseReading EXCEPT !.SPP = p, !.time_series = ts] :
        p \in {Num(3500), Str},
        ts \in SeriesSamples}

RopReadings ==
    {[BaseReading EXCEPT !.WOB = w, !.RPM = r, !.Flow_Rate = f, !.MSE = m,
                         !.SPP = p, !.ROP = o] :
        w \in {Num(25), Num(60), Missing, Str},
        r \in {Num(120), Num(0)},
        f \in {Num(600), Num(0), Str},
        m \in {Num(474), Num(40000), Str},
        p \in {Num(3500), Num(4600)},
        o \in {Num(60), Num(0), Str}}

PredictReadings ==
    {NotADict, EmptyDict} \cup MechanicalReadings \cup DifferentialReadings
    \cup HoleCleaningReadings \cup WashoutReadings \cup RopReadings

\* Values np.random.uniform(0.85, 1.05) may draw, in thousandths.
ReturnFlowSamples == {850, 900, 970, 1049}

\* ROP values the fitted model may predict for its best candidate, in
\* hundredths of ft/hr.
PredictedRops == {6600, 7500}

(***************************************************************************)
(* Sample agent results, as the predictions argument of the orchestrator.  *)
(***************************************************************************)
SampleFactors(agent) ==
    IF agent = "mechanical_sticking" THEN <<"High torque to WOB ratio">>
    ELSE IF agent = "differential_sticking" THEN <<"High differential pressure">>
    ELSE IF agent = "hole_cleaning" THEN <<"High ROP relative to flow rate">>
    ELSE <<"Significant standpipe pressure drops">>

\* A result of `agent` with probability p, its recommendations as the
\* agent's _generate_recommendations builds them.
SampleResult(agent, p, issue_type) ==
    IF agent = "mechanical_sticking"
    THEN RiskResult(p, SampleFactors(agent),
                    MechanicalRecommendations(p, SampleFactors(agent)), <<>>)
    ELSE IF agent = "differential_sticking"
    THEN RiskResult(p, SampleFactors(agent),
                    DifferentialRecommendations(p, SampleFactors(agent)), <<>>)
    ELSE IF agent = "hole_cleaning"
    THEN RiskResult(p, SampleFactors(agent),
                    HoleCleaningRecommendations(p, SampleFactors(agent)), <<>>)
    ELSE RiskResult(p, SampleFactors(agent),
                    WashoutRecommendations(p, SampleFactors(agent), issue_type),
                    <<issue_type>>)

SampleResults(agent, probs) ==
    {SampleResult(agent, p, "Washout") : p \in probs}
    \cup (IF agent = "washout_mud_losses"
          THEN {SampleResult(agent, Pct(80), "Mud Losses")} ELSE {})

\* Results of the ROP agent: the heuristic recommendation, a regression
\* recommendation, the result of its except branch on a reading whose WOB
\* is not a number.
RopHeuristicResult ==
    RopOptimizationPredict(NewRopAgent(FALSE), BaseReading,
                           [found |-> FALSE, wob |-> 0, rpm |-> 0,
                            rop |-> 0]).result

RopSampleResults ==
    {RopHeuristicResult,
     RopOptimizationPredict(NewRopAgent(TRUE), BaseReading,
                            [found |-> TRUE, wob |-> 27, rpm |-> 130,
                             rop |-> 7500]).result,
     RopOptimizationPredict(NewRopAgent(FALSE),
                            [BaseReading EXCEPT !.WOB = Str],
                            [found |-> FALSE, wob |-> 0, rpm |-> 0,
                             rop |-> 0]).result}

\* The predictions dicts whose entry for a risk agent is drawn from
\* risk[agent] and whose entry for the ROP agent is drawn from rop.
PredictionDicts(risk, rop) ==
    {[a \in AllAgentSet |->
        IF a = "mechanical_sticking" THEN m
        ELSE IF a = "differential_sticking" THEN d
        ELSE IF a = "hole_cleaning" THEN h
        ELSE IF a = "washout_mud_losses" THEN w
        ELSE r] :
        m \in risk["mechanical_sticking"],
        d \in risk["differential_sticking"],
        h \in risk["hole_cleaning"],
        w \in risk["washout_mud_losses"],
        r \in rop}

EvalProbs == {Pct(30), Pct(60) - 1, Pct(60), Pct(70), Pct(80) - 1, Pct(80)}
RecProbs == {Pct(30), Pct(40), Pct(70) - 1, Pct(70), Pct(80) - 1, Pct(80)}

(***************************************************************************)
(* SpecEval: calls of evaluate_predictions.                                *)
(***************************************************************************)
InitEval ==
    /\ predictions \in
         PredictionDicts([a \in RiskAgentSet |->
                             SampleResults(a, EvalProbs) \cup {None, Absent}],
                         {None, RopHeuristicResult})
    /\ thresholds \in ThresholdMaps
    /\ new_alerts = <<>> /\ eval_call = "not_called"
    /\ recommendations = <<>> /\ recs_call = "not_called"
    /\ drilling_data = NotADict /\ rop_agent = NewRopAgent(FALSE)
    /\ IdleAgents /\ IdleDriver
    /\ IdleDerivation
    /\ IdleHistory

CallEvaluatePredictions ==
    /\ eval_call = "not_called"
    /\ LET r == evaluate_predictions(predictions, thresholds)
       IN /\ eval_call' = IF r.raised THEN "raised" ELSE "returned"
          /\ new_alerts' = r.alerts
    /\ UNCHANGED <<predictions, thresholds, recommendations, recs_call,
                   drilling_data, rop_agent, agent_vars, driver_vars>>
    /\ UNCHANGED derive_vars
    /\ UNCHANGED <<history_vars, loops>>

NextEval == CallEvaluatePredictions
SpecEval == InitEval /\ [][NextEval]_vars

(***************************************************************************)
(* SpecRecs: calls of get_recommendations.                                 *)
(***************************************************************************)
InitRecs ==
    /\ predictions \in
         PredictionDicts([a \in RiskAgentSet |->
                             SampleResults(a, RecProbs) \cup {None}],
                         RopSampleResults \cup {None, Absent})
    /\ IdleOrchestrator
    /\ drilling_data = NotADict /\ rop_agent = NewRopAgent(FALSE)
    /\ IdleAgents /\ IdleDriver
    /\ IdleDerivation
    /\ IdleHistory

CallGetRecommendations ==
    /\ recs_call = "not_called"
    /\ LET r == get_recommendations(predictions)
       IN /\ recs_call' = IF r.raised THEN "raised" ELSE "returned"
          /\ recommendations' = r.list
    /\ UNCHANGED <<predictions, thresholds, new_alerts, eval_call,
                   drilling_data, rop_agent, agent_vars, driver_vars>>
    /\ UNCHANGED derive_vars
    /\ UNCHANGED <<history_vars, loops>>

NextRecs == CallGetRecommendations
SpecRecs == InitRecs /\ [][NextRecs]_vars

(***************************************************************************)
(* SpecPredict: calls of the agents' predict on one reading.               *)
(***************************************************************************)
MaxRopCalls == 2

InitPredict ==
    /\ drilling_data \in PredictReadings
    /\ rop_agent \in {NewRopAgent(FALSE), NewRopAgent(TRUE)}
    /\ predictions = InitialPredictions
    /\ IdleOrchestrator /\ IdleAgents /\ IdleDriver
    /\ IdleDerivation
    /\ IdleHistory

Returned(agent, r) ==
    /\ called' = agent
    /\ call_raised' = FALSE
    /\ result' = r
    /\ UNCHANGED <<predictions, drilling_data, orchestrator_vars, driver_vars>>
    /\ UNCHANGED derive_vars
    /\ UNCHANGED <<history_vars, loops>>

CallMechanicalSticking ==
    /\ Returned("mechanical_sticking", MechanicalStickingPredict(drilling_data))
    /\ UNCHANGED rop_agent

CallDifferentialSticking ==
    /\ Returned("differential_sticking",
                DifferentialStickingPredict(drilling_data))
    /\ UNCHANGED rop_agent

CallHoleCleaning ==
    /\ Returned("hole_cleaning", HoleCleaningPredict(drilling_data))
    /\ UNCHANGED rop_agent

CallWashoutMudLosses ==
    \E return_flow_ratio \in ReturnFlowSamples :
        /\ Returned("washout_mud_losses",
                    WashoutMudLossesPredict(drilling_data, return_flow_ratio))
        /\ UNCHANGED rop_agent

CallRopOptimization ==
    /\ rop_agent.data_counter < MaxRopCalls
    /\ \E fit \in Fits(drilling_data, PredictedRops) :
         LET r == RopOptimizationPredict(rop_agent, drilling_data, fit)
         IN /\ called' = "rop_optimization"
            /\ call_raised' = r.raised
            /\ result' = r.result
            /\ rop_agent' = r.state
    /\ rop_arrivals' = Arrived(rop_arrivals, drilling_data)
    /\ UNCHANGED <<predictions, drilling_data, orchestrator_vars, driver_vars>>
    /\ UNCHANGED <<derive_vars, generated_alerts, loops>>

NextPredict ==
    \/ CallMechanicalSticking
    \/ CallDifferentialSticking
    \/ CallHoleCleaning
    \/ CallWashoutMudLosses
    \/ CallRopOptimization
SpecPredict == InitPredict /\ [][NextPredict]_vars

(***************************************************************************)
(* SpecRopWindow: ROPOptimizationAgent.predict called on a sequence of      *)
(* readings, from a new agent or from an agent that has already been       *)
(* handed 18 or 20 readings with a ROP above 0.                            *)
(***************************************************************************)
EarlierReading(i) ==
    [BaseReading EXCEPT !.WOB = Num(i), !.ROP = Num(40 + i)]

RECURSIVE AgentAfter(_)
AgentAfter(n) ==
    IF n = 0 THEN NewRopAgent(FALSE)
    ELSE UpdateTrainingData(AgentAfter(n - 1), EarlierReading(n))

RECURSIVE ArrivalsAfter(_)
ArrivalsAfter(n) ==
    IF n = 0 THEN <<>>
    ELSE Arrived(ArrivalsAfter(n - 1), EarlierReading(n))

\* The numbers of earlier readings the agent starts from.
StartLengths == {0, 18, 20}

WindowReadings ==
    {NotADict}
    \cup {[BaseReading EXCEPT !.ROP = o] :
             o \in {Num(60), Num(75), Num(0), Num(0 - 5), Str, Missing}}

InitRopWindow ==
    /\ drilling_data = None
    /\ \E n \in StartLengths :
          /\ rop_agent = AgentAfter(n)
          /\ rop_arrivals = ArrivalsAfter(n)
    /\ predictions = InitialPredictions
    /\ IdleOrchestrator /\ IdleAgents /\ IdleDriver
    /\ IdleDerivation
    /\ generated_alerts = <<>>
    /\ loops = <<>>

\* rop_optimization.predict(d), lines 241-320.
PredictRopOptimization ==
    /\ \E n \in StartLengths :
          n <= Len(rop_arrivals) /\ Len(rop_arrivals) < n + MaxRopCalls
    /\ \E d \in WindowReadings :
         /\ drilling_data' = d
         /\ rop_arrivals' = Arrived(rop_arrivals, d)
         /\ \E fit \in Fits(d, PredictedRops) :
              LET r == RopOptimizationPredict(rop_agent, d, fit)
              IN /\ called' = "rop_optimization"
                 /\ call_raised' = r.raised
                 /\ result' = r.result
                 /\ rop_agent' = r.state
    /\ UNCHANGED <<predictions, orchestrator_vars, driver_vars>>
    /\ UNCHANGED <<derive_vars, generated_alerts, loops>>

SpecRopWindow == InitRopWindow /\ [][PredictRopOptimization]_vars

\* The reading of the last call has no ROP above 0.
RopNotAbove0(d) ==
    d.kind = "dict" /\ Get(d, "ROP", 0).t = "num" /\ Get(d, "ROP", 0).v <= 0

\* C25: after any sequence of calls of ROPOptimization.predict the buffers
\* X and y have the same length, at most history_window (20), and hold the
\* features and the ROP of the most recent readings whose ROP was above 0,
\* in the order of their arrival; the data counter has counted exactly
\* those readings; a call with a reading whose ROP is 0 or less leaves X, y
\* and the data counter as they were.
C25_TrainingWindowHoldsLatestValidReadings ==
    /\ [](LET X == rop_agent.X
              y == rop_agent.y
              n == Len(rop_arrivals)
          IN /\ Len(X) = Len(y)
             /\ Len(X) = Min(history_window, n)
             /\ rop_agent.data_counter = n
             /\ \A i \in 1..Len(X) :
                   /\ X[i] = rop_arrivals[n - Len(X) + i].features
                   /\ y[i] = rop_arrivals[n - Len(X) + i].target)
    /\ [][(called' = "rop_optimization" /\ RopNotAbove0(drilling_data'))
            => /\ rop_agent'.X = rop_agent.X
               /\ rop_agent'.y = rop_agent.y
               /\ rop_agent'.data_counter = rop_agent.data_counter]_vars
\* More than 20 readings with a ROP above 0 have arrived, the oldest were
\* dropped, and the last call brought a reading with a ROP of 0 or less.
C25_Witness ==
    /\ Len(rop_arrivals) > history_window
    /\ Len(rop_agent.X) = history_window
    /\ rop_agent.X[1] # rop_arrivals[1].features
    /\ called = "rop_optimization"
    /\ RopNotAbove0(drilling_data)

(***************************************************************************)
(* SpecStationary: DifferentialStickingAgent.predict on readings whose     *)
(* time_series holds an RPM list of up to MaxRpmSamples samples, each      *)
(* below (4) or not below (5) the limit of line 62; or no RPM list; or no  *)
(* time_series.                                                            *)
(***************************************************************************)
MaxRpmSamples == 11

RpmWindows == UNION {[1..n -> {4, 5}] : n \in 0..MaxRpmSamples}

StationaryReadings ==
    {[BaseReading EXCEPT !.time_series = NoTimeSeries],
     [BaseReading EXCEPT !.time_series = [NoTimeSeries EXCEPT !.present = TRUE]]}
    \cup {[BaseReading EXCEPT
             !.time_series = [NoTimeSeries EXCEPT !.present = TRUE,
                                                  !.RPM = <<w>>]] :
             w \in RpmWindows}

InitStationary ==
    /\ drilling_data \in StationaryReadings
    /\ rop_agent = NewRopAgent(FALSE)
    /\ predictions = InitialPredictions
    /\ IdleOrchestrator /\ IdleAgents /\ IdleDriver
    /\ IdleDerivation
    /\ IdleHistory

SpecStationary == InitStationary /\ [][CallDifferentialSticking]_vars

(***************************************************************************)
(* SpecDerive: feature derivation called repeatedly on one data point:     *)
(* calculate_derived_parameters (in fetch_data) and then process_data (in  *)
(* update_data).                                                           *)
(***************************************************************************)
MaxDeriveCalls == 2

\* Data points with usable, non-positive, missing and non-numeric fields.
DerivationPoints ==
    {[SimulatedPoint EXCEPT !.ROP = r, !.Flow_Rate = f, !.ECD = e,
                            !.hook_load = h, !.depth = z] :
        r \in {Num(60), Num(0), Str},
        f \in {Num(600), Num(0), Missing},
        e \in {Num(125), Num(85), Missing, Str},
        h \in {Num(200), Num(30), Missing},
        z \in {Num(10000), Num(0)}}

\* DeriveCall with calculate_derived_parameters writing into its argument
\* instead of into a copy.
DeriveCallInPlace(data) ==
    [returned |-> process_data(calculate_derived_parameters(data)),
     argument |-> calculate_derived_parameters(data)]

\* One derivation of a data point: the reading it returns, and the
\* argument as the caller finds it afterwards.  Both functions work on
\* data.copy() (witsml_connector.py line 554, data_processor.py line 26)
\* and their handlers return the argument itself, so it is left as it was.
DeriveCall(data) ==
    [returned |-> process_data(calculate_derived_parameters(data)),
     argument |-> data]

InitDerive ==
    /\ raw_reading \in DerivationPoints
    /\ derive_calls = <<>>
    /\ predictions = InitialPredictions
    /\ drilling_data = NotADict /\ rop_agent = NewRopAgent(FALSE)
    /\ IdleOrchestrator /\ IdleAgents /\ IdleDriver
    /\ IdleHistory

CallDerive ==
    /\ Len(derive_calls) < MaxDeriveCalls
    /\ LET c == DeriveCall(raw_reading)
       IN /\ derive_calls' = Append(derive_calls,
                                    [argument |-> raw_reading,
                                     returned |-> c.returned])
          /\ raw_reading' = c.argument
    /\ UNCHANGED <<predictions, orchestrator_vars, drilling_data, agent_vars,
                   rop_agent, driver_vars>>
    /\ UNCHANGED <<history_vars, loops>>

NextDerive == CallDerive
SpecDerive == InitDerive /\ [][NextDerive]_vars

(***************************************************************************)
(* Spec: the polling thread update_data of app.py and the Connect and      *)
(* Disconnect buttons.  One thread is followed: Connect is taken when the  *)
(* thread of an earlier connection has left its loop.  The database save   *)
(* of lines 125-143 catches its own exceptions and is left out.            *)
(***************************************************************************)
MaxCycles == 2

\* Data points fetch_data may hand to calculate_derived_parameters: points
\* of generate_simulated_data, and points of a WITSML log in which a value
\* is a string (lines 188-190) or a curve is missing.
SimulatedPoints ==
    {SimulatedPoint,
     [SimulatedPoint EXCEPT !.WOB = Num(20), !.Torque = Num(9),
                            !.ECD = Num(130), !.Flow_Rate = Num(550),
                            !.hook_load = Num(180)]}
LogPoints ==
    {[SimulatedPoint EXCEPT !.SPP = Str],
     [SimulatedPoint EXCEPT !.Flow_Rate = Str],
     [SimulatedPoint EXCEPT !.Torque = Str, !.ECD = Missing]}

\* What fetch_data returns: None, or a data point with its derived
\* parameters.
FetchResults ==
    {None} \cup {calculate_derived_parameters(point) :
                    point \in SimulatedPoints \cup LogPoints}

\* st.session_state.config: the dict of get_default_config (line 58), or a
\* dict that holds the keys lines 117, 146 and 229-273 read.
Configs == {DefaultConfig, OperatorConfig(DefaultThresholds),
            OperatorConfig(LowThresholds)}

Init ==
    /\ predictions = InitialPredictions
    /\ IdleOrchestrator
    /\ drilling_data = None
    /\ IdleAgents
    /\ rop_agent = NewRopAgent(FALSE)
    /\ connection_status = FALSE
    /\ pc = "idle"
    /\ new_data = None
    /\ alerts = <<>>
    /\ config \in Configs
    /\ cycle = 0
    /\ IdleDerivation
    /\ IdleHistory

\* Lines 201-215 (test_connection succeeded).
Connect ==
    /\ ~connection_status
    /\ pc = "idle"
    /\ connection_status' = TRUE
    /\ pc' = "while"
    /\ UNCHANGED <<predictions, orchestrator_vars, drilling_data, agent_vars,
                   rop_agent, new_data, alerts, config, cycle>>
    /\ UNCHANGED derive_vars
    /\ UNCHANGED <<history_vars, loops>>

\* Lines 217-221.
Disconnect ==
    /\ connection_status
    /\ connection_status' = FALSE
    /\ UNCHANGED <<predictions, orchestrator_vars, drilling_data, agent_vars,
                   rop_agent, pc, new_data, alerts, config, cycle>>
    /\ UNCHANGED derive_vars
    /\ UNCHANGED <<history_vars, loops>>

\* Line 94: while st.session_state.connection_status
LoopTest ==
    /\ pc = "while"
    /\ pc' = IF connection_status THEN "fetch" ELSE "idle"
    /\ UNCHANGED <<predictions, orchestrator_vars, drilling_data, agent_vars,
                   rop_agent, connection_status, new_data, alerts, config,
                   cycle>>
    /\ UNCHANGED derive_vars
    /\ UNCHANGED <<history_vars, loops>>

\* Lines 96-105: fetch_data, and process_data when it returned a reading.
Fetch ==
    /\ pc = "fetch"
    /\ cycle < MaxCycles
    /\ cycle' = cycle + 1
    /\ \E fetched \in FetchResults :
         /\ new_data' = fetched
         /\ IF fetched.kind = "None"
            THEN /\ pc' = "sleep"
                 /\ UNCHANGED drilling_data
            ELSE /\ pc' = "mechanical_sticking"
                 /\ drilling_data' = process_data(fetched)
    /\ eval_call' = "not_called"
    /\ new_alerts' = <<>>
    /\ UNCHANGED <<predictions, thresholds, recommendations, recs_call,
                   agent_vars, rop_agent, connection_status, alerts, config>>
    /\ UNCHANGED derive_vars
    /\ UNCHANGED <<history_vars, loops>>

\* A loop that tested the flag before each assignment and returned.
AssignedUnlessStopped(agent, r, next) ==
    /\ pc = agent
    /\ IF connection_status
       THEN predictions' = [predictions EXCEPT ![agent] = r] /\ pc' = next
       ELSE UNCHANGED predictions /\ pc' = "idle"
    /\ UNCHANGED <<orchestrator_vars, drilling_data, agent_vars,
                   connection_status, new_data, alerts, config, cycle>>
    /\ UNCHANGED derive_vars
    /\ UNCHANGED <<history_vars, loops>>

\* Lines 108-111: one entry of st.session_state.predictions is assigned.
Assigned(agent, r, next) ==
    /\ pc = agent
    /\ predictions' = [predictions EXCEPT ![agent] = r]
    /\ pc' = next
    /\ UNCHANGED <<orchestrator_vars, drilling_data, agent_vars,
                   connection_status, new_data, alerts, config, cycle>>
    /\ UNCHANGED derive_vars
    /\ UNCHANGED <<history_vars, loops>>

\* Line 108
RunMechanicalSticking ==
    /\ Assigned("mechanical_sticking",
                MechanicalStickingPredict(drilling_data),
                "differential_sticking")
    /\ UNCHANGED rop_agent

\* Line 109
RunDifferentialSticking ==
    /\ Assigned("differential_sticking",
                DifferentialStickingPredict(drilling_data), "hole_cleaning")
    /\ UNCHANGED rop_agent

\* Line 110
RunHoleCleaning ==
    /\ Assigned("hole_cleaning", HoleCleaningPredict(drilling_data),
                "washout_mud_losses")
    /\ UNCHANGED rop_agent

\* Line 111
RunWashoutMudLosses ==
    \E return_flow_ratio \in ReturnFlowSamples :
        /\ Assigned("washout_mud_losses",
                    WashoutMudLossesPredict(drilling_data, return_flow_ratio),
                    "rop_optimization")
        /\ UNCHANGED rop_agent

\* Line 112; an exception predict lets through ends the cycle at line 148.
RunRopOptimization ==
    /\ pc = "rop_optimization"
    /\ \E fit \in Fits(drilling_data, PredictedRops) :
         LET r == RopOptimizationPredict(rop_agent, drilling_data, fit)
         IN /\ rop_agent' = r.state
            /\ IF r.raised
               THEN pc' = "except" /\ UNCHANGED predictions
               ELSE /\ pc' = "evaluate"
                    /\ predictions' =
                         [predictions EXCEPT !["rop_optimization"] = r.result]
    /\ rop_arrivals' = Arrived(rop_arrivals, drilling_data)
    /\ UNCHANGED <<orchestrator_vars, drilling_data, agent_vars,
                   connection_status, new_data, alerts, config, cycle>>
    /\ UNCHANGED <<derive_vars, generated_alerts, loops>>

\* Lines 120-123: the alerts of the cycle are appended to the history, which
\* is then cut to its last 50 entries; a cycle without alerts leaves it.
UpdateAlertHistoryKeepOldest(history, fresh) ==
    IF fresh # <<>> THEN FirstN(history \o fresh, 50) ELSE history
UpdateAlertHistory(history, fresh) ==
    IF fresh # <<>> THEN LastN(history \o fresh, 50) ELSE history

\* Lines 115-123.  Reading config['thresholds'] is a KeyError when the key
\* is not there; evaluate_predictions is then not called.
OrchestrateAlerts ==
    /\ pc = "evaluate"
    /\ IF Len(config.thresholds) = 0
       THEN /\ pc' = "except"
            /\ UNCHANGED <<new_alerts, eval_call, alerts, generated_alerts>>
       ELSE LET r == evaluate_predictions(predictions, config.thresholds[1])
            IN IF r.raised
               THEN /\ pc' = "except"
                    /\ eval_call' = "raised"
                    /\ UNCHANGED <<new_alerts, alerts, generated_alerts>>
               ELSE /\ pc' = "sleep"
                    /\ eval_call' = "returned"
                    /\ new_alerts' = r.alerts
                    /\ generated_alerts' = generated_alerts \o r.alerts
                    /\ alerts' = UpdateAlertHistory(alerts, r.alerts)
    /\ UNCHANGED <<predictions, thresholds, recommendations, recs_call,
                   drilling_data, agent_vars, rop_agent, connection_status,
                   new_data, config, cycle>>
    /\ UNCHANGED derive_vars
    /\ UNCHANGED <<rop_arrivals, loops>>

\* Line 146: time.sleep(config['update_frequency'])
Sleep ==
    /\ pc = "sleep"
    /\ pc' = IF Len(config.update_frequency) = 0 THEN "except" ELSE "while"
    /\ UNCHANGED <<predictions, orchestrator_vars, drilling_data, agent_vars,
                   rop_agent, connection_status, new_data, alerts, config,
                   cycle>>
    /\ UNCHANGED derive_vars
    /\ UNCHANGED <<history_vars, loops>>

\* Lines 148-150: st.error, time.sleep(5), and back to the loop test.
HandleException ==
    /\ pc = "except"
    /\ pc' = "while"
    /\ UNCHANGED <<predictions, orchestrator_vars, drilling_data, agent_vars,
                   rop_agent, connection_status, new_data, alerts, config,
                   cycle>>
    /\ UNCHANGED derive_vars
    /\ UNCHANGED <<history_vars, loops>>

Next ==
    \/ Connect
    \/ Disconnect
    \/ LoopTest
    \/ Fetch
    \/ RunMechanicalSticking
    \/ RunDifferentialSticking
    \/ RunHoleCleaning
    \/ RunWashoutMudLosses
    \/ RunRopOptimization
    \/ OrchestrateAlerts
    \/ Sleep
    \/ HandleException
Spec == Init /\ [][Next]_vars

\* The thread of update_data runs once started (threading.Thread, line 204):
\* whichever step it is at is eventually taken.
ThreadStep ==
    \/ LoopTest
    \/ Fetch
    \/ RunMechanicalSticking
    \/ RunDifferentialSticking
    \/ RunHoleCleaning
    \/ RunWashoutMudLosses
    \/ RunRopOptimization
    \/ OrchestrateAlerts
    \/ Sleep
    \/ HandleException
SpecLive == Init /\ [][Next]_vars /\ WF_vars(ThreadStep)

\* The steps of a cycle after the loop test, and where each one leads: the
\* next statement, or the except clause of line 148.
InFlight ==
    {"fetch", "mechanical_sticking", "differential_sticking",
     "hole_cleaning", "washout_mud_losses", "rop_optimization", "evaluate",
     "sleep"}
CycleSuccessors(step) ==
    IF step = "fetch" THEN {"mechanical_sticking", "sleep"}
    ELSE IF step = "mechanical_sticking" THEN {"differential_sticking"}
    ELSE IF step = "differential_sticking" THEN {"hole_cleaning"}
    ELSE IF step = "hole_cleaning" THEN {"washout_mud_losses"}
    ELSE IF step = "washout_mud_losses" THEN {"rop_optimization"}
    ELSE IF step = "rop_optimization" THEN {"evaluate", "except"}
    ELSE IF step = "evaluate" THEN {"sleep", "except"}
    ELSE {"while", "except"}

\* C22: the stop flag is tested only at the top of a cycle.  A cycle in
\* flight never leaves its sequence of steps, whatever the flag is; when the
\* flag is false in mid-cycle every remaining step (the five predictions,
\* the alert evaluation with its history update, the sleep) is still
\* taken, unless a step raises into the except clause; a Disconnect
\* changes nothing but the flag; a loop test that sees the flag false ends
\* the loop, and only a Connect starts one again.
C22_StopFlagTestedAtTopOfCycle ==
    /\ [][(pc \in InFlight /\ pc' # pc) => pc' \in CycleSuccessors(pc)]_vars
    /\ [][(pc = "evaluate" /\ pc' = "sleep")
            => /\ eval_call' = "returned"
               /\ alerts' = UpdateAlertHistory(alerts, new_alerts')]_vars
    /\ [][(connection_status /\ ~connection_status')
            => pc' = pc /\ predictions' = predictions /\ alerts' = alerts]_vars
    /\ [][(pc = "while" /\ ~connection_status /\ pc' # pc)
            => pc' = "idle" /\ cycle' = cycle]_vars
    /\ [][(pc = "idle" /\ pc' # pc)
            => ~connection_status /\ connection_status' /\ pc' = "while"]_vars
    /\ \A step \in InFlight \ {"fetch"} :
          (pc = step /\ ~connection_status) ~> (pc \in CycleSuccessors(step))
    /\ (pc = "fetch" /\ ~connection_status /\ cycle < MaxCycles)
          ~> (pc \in CycleSuccessors("fetch"))
    /\ (pc = "while" /\ ~connection_status)
          ~> (pc = "idle" \/ connection_status)
\* The flag went false after the loop test of a cycle, and the five
\* predictions of that cycle were assigned all the same.
C22_Witness ==
    /\ ~connection_status
    /\ pc = "evaluate"
    /\ cycle = 1
    /\ \A a \in AllAgentSet : IsResult(predictions[a])

\* The entries of the predictions buffer that are a function of the reading
\* alone, as the agents compute them from reading d.
ComputedFrom(d) ==
    /\ predictions["mechanical_sticking"] = MechanicalStickingPredict(d)
    /\ predictions["differential_sticking"] = DifferentialStickingPredict(d)
    /\ predictions["hole_cleaning"] = HoleCleaningPredict(d)
    /\ \E return_flow_ratio \in ReturnFlowSamples :
          predictions["washout_mud_losses"]
              = WashoutMudLossesPredict(d, return_flow_ratio)
    /\ IsResult(predictions["rop_optimization"])

\* C23: in every state of the polling loop, which is every state a reader
\* of st.session_state.predictions may see, the five entries are all unset
\* or all computed from one and the same reading.
C23_BufferNeverMixesCycles ==
    \/ \A a \in AllAgentSet : predictions[a] = None
    \/ \E fetched \in FetchResults \ {None} :
          ComputedFrom(process_data(fetched))

(***************************************************************************)
(* The threads of update_data.  Every successful Connect starts one        *)
(* (lines 207-210); nothing joins or replaces the thread of an earlier     *)
(* Connect, and all of them read the one flag of the session.  loops[i] is *)
(* the position of the i-th thread started: at the loop test of line 94,   *)
(* in the body of a cycle (lines 95-144), in a sleep (line 146 or 150), or *)
(* returned.                                                               *)
(***************************************************************************)
MaxLoops == 3
MaxLoopCycles == 2

loop_frame ==
    <<predictions, orchestrator_vars, drilling_data, agent_vars, rop_agent,
      pc, new_data, alerts, config, cycle, derive_vars, history_vars>>

\* Lines 202-210: the button is offered when the flag is False.
StartThread ==
    /\ ~connection_status
    /\ Len(loops) < MaxLoops
    /\ connection_status' = TRUE
    /\ loops' = Append(loops, [at |-> "while", cycles |-> 0])
    /\ UNCHANGED loop_frame

\* Line 94, in thread i.
ThreadLoopTest(i) ==
    /\ loops[i].at = "while"
    /\ loops' = [loops EXCEPT ![i].at = IF connection_status THEN "cycle"
                                         ELSE "returned"]
    /\ UNCHANGED <<connection_status, loop_frame>>

\* Lines 95-144, in thread i: the body of a cycle never writes the flag.
ThreadCycle(i) ==
    /\ loops[i].at = "cycle"
    /\ loops[i].cycles < MaxLoopCycles
    /\ loops' = [loops EXCEPT ![i] = [at |-> "sleep", cycles |-> @.cycles + 1]]
    /\ UNCHANGED <<connection_status, loop_frame>>

\* Line 146 or line 150, in thread i.
ThreadSleep(i) ==
    /\ loops[i].at = "sleep"
    /\ loops' = [loops EXCEPT ![i].at = "while"]
    /\ UNCHANGED <<connection_status, loop_frame>>

NextLoops ==
    \/ StartThread
    \/ Disconnect
    \/ \E i \in 1..Len(loops) : ThreadLoopTest(i)
    \/ \E i \in 1..Len(loops) : ThreadCycle(i)
    \/ \E i \in 1..Len(loops) : ThreadSleep(i)
SpecLoops == Init /\ [][NextLoops]_vars

\* C24: a loop started by an earlier Connect (a Disconnect and a later
\* Connect, which started a newer loop, have happened since) never passes
\* the loop test into another cycle; so at most one loop runs cycles.
C24_StoppedLoopRunsNoFurtherCycle ==
    [][\A i \in 1..Len(loops) :
          (i < Len(loops) /\ loops[i].at = "while")
              => loops'[i].at # "cycle"]_vars

\* The polling loop late in a session: the history already holds the alerts
\* of earlier cycles (lines 120-123 appended them), close to the 50 that
\* line 123 keeps.
EarlierAlert ==
    MechanicalStickingAlert(
        [a \in AllAgentSet |-> SampleResult(a, Pct(95), "Washout")],
        DefaultThresholds)[1]
EarlierHistories == {Repeat(EarlierAlert, n) : n \in {47, 49, 50}}

InitHistory ==
    /\ predictions = InitialPredictions
    /\ IdleOrchestrator
    /\ drilling_data = None
    /\ IdleAgents
    /\ rop_agent = NewRopAgent(FALSE)
    /\ connection_status = FALSE
    /\ pc = "idle"
    /\ new_data = None
    /\ alerts \in EarlierHistories
    /\ generated_alerts = alerts
    /\ config \in Configs
    /\ cycle = 0
    /\ IdleDerivation
    /\ rop_arrivals = <<>>
    /\ loops = <<>>
SpecHistory == InitHistory /\ [][Next]_vars

\* C21: the in-memory alert history never holds more than 50 alerts, and it
\* holds the most recently generated alerts in the order of their
\* generation: it is the tail of the sequence of all alerts generated so
\* far, the oldest ones being the ones dropped.
C21_HistoryKeepsLast50 ==
    /\ Len(alerts) <= 50
    /\ Len(alerts) = Min(50, Len(generated_alerts))
    /\ \A i \in 1..Len(alerts) :
          alerts[i] = generated_alerts[Len(generated_alerts) - Len(alerts) + i]
\* A cycle's alerts pushed the history past 50: the oldest were dropped.
C21_Witness ==
    /\ pc = "sleep"
    /\ new_alerts # <<>>
    /\ Len(generated_alerts) > 50
    /\ Len(alerts) = 50
    /\ alerts[50] # EarlierAlert

(***************************************************************************)
(* Properties of evaluate_predictions (checked under SpecEval).            *)
(***************************************************************************)
\* The 'type' of the alert evaluate_predictions builds for an agent.
AlertTypeOf(agent) ==
    IF agent = "mechanical_sticking" THEN "Mechanical Sticking Risk"
    ELSE IF agent = "differential_sticking" THEN "Differential Sticking Risk"
    ELSE IF agent = "hole_cleaning" THEN "Hole Cleaning Risk"
    ELSE IssueTypeOr(predictions[agent], "Washout/Mud Losses") \o " Risk"

AlertsOf(agent) ==
    {i \in 1..Len(new_alerts) :
        IsResult(predictions[agent]) /\ new_alerts[i].type = AlertTypeOf(agent)}

AllRiskKeysPresent == \A a \in RiskAgentSet : predictions[a].kind # "absent"

\* C1: when the predictions dict holds all four risk keys, the call returns
\* and, for each risk agent whose result is not None, the returned list has
\* an alert of that agent if and only if its probability is greater than or
\* equal to its threshold.
C1_AlertIffAtOrAboveThreshold ==
    (eval_call # "not_called" /\ AllRiskKeysPresent) =>
        /\ eval_call = "returned"
        /\ \A a \in RiskAgentSet :
             IsResult(predictions[a]) =>
                 (AlertsOf(a) # {} <=> predictions[a].probability >= thresholds[a])

\* C1 witness: a returned call in which one agent's probability equals its
\* threshold and is alerted, and another's is just below and is not.
C1_Witness ==
    /\ eval_call = "returned"
    /\ IsResult(predictions["mechanical_sticking"])
    /\ predictions["mechanical_sticking"].probability
         = thresholds["mechanical_sticking"]
    /\ AlertsOf("mechanical_sticking") # {}
    /\ IsResult(predictions["washout_mud_losses"])
    /\ predictions["washout_mud_losses"].probability
         = thresholds["washout_mud_losses"] - 1
    /\ AlertsOf("washout_mud_losses") = {}

SeverityOf(probability) ==
    IF probability >= Pct(80) THEN "HIGH"
    ELSE IF probability >= Pct(60) THEN "MEDIUM"
    ELSE "LOW"

\* C2: every alert in the returned list, of any of the four risk agents,
\* has severity HIGH when the agent's probability is >= 0.8, MEDIUM when it
\* is >= 0.6 and below 0.8, and LOW otherwise.
C2_SeverityTiers ==
    eval_call = "returned" =>
        \A a \in RiskAgentSet : \A i \in AlertsOf(a) :
            new_alerts[i].severity = SeverityOf(predictions[a].probability)

\* C2 witness: a returned list with a washout alert at exactly 0.6 that is
\* MEDIUM, a HIGH alert at exactly 0.8 and a LOW alert.
C2_Witness ==
    /\ eval_call = "returned"
    /\ IsResult(predictions["washout_mud_losses"])
    /\ predictions["washout_mud_losses"].probability = Pct(60)
    /\ \E i \in AlertsOf("washout_mud_losses") : new_alerts[i].severity = "MEDIUM"
    /\ \E a \in RiskAgentSet : \E i \in AlertsOf(a) :
          predictions[a].probability = Pct(80) /\ new_alerts[i].severity = "HIGH"
    /\ \E a \in RiskAgentSet : \E i \in AlertsOf(a) : new_alerts[i].severity = "LOW"

\* The risk agent an alert belongs to, as an index into RiskAgents; 0 when
\* the alert belongs to none of them.
AlertAgentIndex(alert) ==
    IF \E k \in 1..Len(RiskAgents) :
          IsResult(predictions[RiskAgents[k]])
          /\ alert.type = AlertTypeOf(RiskAgents[k])
    THEN CHOOSE k \in 1..Len(RiskAgents) :
          IsResult(predictions[RiskAgents[k]])
          /\ alert.type = AlertTypeOf(RiskAgents[k])
    ELSE 0

\* C3: the returned list holds only alerts of risk agents (none of the ROP
\* agent), at most one per agent, in the order mechanical sticking,
\* differential sticking, hole cleaning, washout/mud losses.
C3_OneAlertPerAgentInOrder ==
    eval_call = "returned" =>
        /\ \A i \in 1..Len(new_alerts) : AlertAgentIndex(new_alerts[i]) > 0
        /\ \A i, j \in 1..Len(new_alerts) :
             i < j => AlertAgentIndex(new_alerts[i]) < AlertAgentIndex(new_alerts[j])

\* C3 witness: all four risk agents are alerted while the ROP agent has a
\* result too.
C3_Witness ==
    /\ eval_call = "returned"
    /\ Len(new_alerts) = 4
    /\ IsResult(predictions["rop_optimization"])

\* The alerts of the agents that have a result, in evaluation order.
RemainingAlerts ==
    MechanicalStickingAlert(predictions, thresholds)
    \o DifferentialStickingAlert(predictions, thresholds)
    \o HoleCleaningAlert(predictions, thresholds)
    \o WashoutMudLossesAlert(predictions, thresholds)

\* C7: when the result of one risk agent is None or absent, the call does
\* not fail and returns exactly the alerts of the remaining agents.
C7_NoneOrAbsentIsSkipped ==
    (/\ eval_call # "not_called"
     /\ Cardinality({a \in RiskAgentSet : ~IsResult(predictions[a])}) = 1) =>
        /\ eval_call = "returned"
        /\ new_alerts = RemainingAlerts

(***************************************************************************)
(* Properties of get_recommendations (checked under SpecRecs).             *)
(***************************************************************************)
\* The 'category' of the entries get_recommendations builds for an agent.
CategoryOf(agent) ==
    IF agent = "mechanical_sticking" THEN "Mechanical Sticking"
    ELSE IF agent = "differential_sticking" THEN "Differential Sticking"
    ELSE IF agent = "hole_cleaning" THEN "Hole Cleaning"
    ELSE IF agent = "washout_mud_losses"
    THEN IssueTypeOr(predictions[agent], "Washout/Mud Losses")
    ELSE "ROP Optimization"

EntriesOf(agent) ==
    {i \in 1..Len(recommendations) :
        recommendations[i].category = CategoryOf(agent)}

NoneAgents == {a \in AllAgentSet : predictions[a].kind = "None"}

\* The agents that have an entry to contribute: a risk agent whose
\* probability is at least 0.4, the ROP agent when it recommends parameters
\* that are numbers and no risk probability reaches 0.8.
Contributes(agent) ==
    /\ IsResult(predictions[agent])
    /\ IF agent = "rop_optimization"
       THEN /\ Len(predictions[agent].recommended_parameters) > 0
            /\ LET q == predictions[agent].recommended_parameters[1]
               IN "str" \notin {q.WOB.t, q.RPM.t, q.Flow_Rate.t}
            /\ \A b \in RiskAgentSet :
                 IsResult(predictions[b]) => predictions[b].probability < Pct(80)
       ELSE predictions[agent].probability >= Pct(40)

\* C8: when the result of one agent is None (and every key is there), the
\* call returns the entries of every other agent that has one to contribute.
C8_OnlyNoneAgentSkipped ==
    (/\ recs_call # "not_called"
     /\ Cardinality(NoneAgents) = 1
     /\ \A a \in AllAgentSet : predictions[a].kind # "absent") =>
        /\ recs_call = "returned"
        /\ \A a \in AllAgentSet : Contributes(a) => EntriesOf(a) # {}

HighEntries ==
    {i \in 1..Len(recommendations) : recommendations[i].impact_level = "High"}

CriticalAgents ==
    {a \in RiskAgentSet :
        IsResult(predictions[a]) /\ predictions[a].probability >= Pct(70)}

\* C9: in a returned list every risk agent with probability >= 0.7 has
\* exactly one entry, of impact High, whose action_items are the agent's
\* recommendations; the High entries come first and in order of
\* non-increasing probability.
C9_CriticalEntriesFirst ==
    recs_call = "returned" =>
        /\ \A a \in CriticalAgents :
             /\ Cardinality(EntriesOf(a)) = 1
             /\ \A i \in EntriesOf(a) :
                  /\ recommendations[i].impact_level = "High"
                  /\ recommendations[i].action_items
                       = predictions[a].recommendations
        /\ \A i \in HighEntries : \A j \in 1..Len(recommendations) :
             j < i => j \in HighEntries
        /\ \A a, b \in CriticalAgents :
             \A i \in EntriesOf(a) : \A j \in EntriesOf(b) :
                i < j => predictions[a].probability >= predictions[b].probability

\* C10: a returned list holds no ROP Optimization entry when some risk
\* agent's probability is >= 0.8.
C10_NoRopEntryWhenSevere ==
    (/\ recs_call = "returned"
     /\ \E a \in RiskAgentSet :
          IsResult(predictions[a]) /\ predictions[a].probability >= Pct(80)) =>
        EntriesOf("rop_optimization") = {}

\* C10 witness: every agent has a result, the ROP agent recommends
\* parameters, one risk probability is 0.8 and another critical one is
\* below 0.8; the returned list has the two High entries and no ROP entry.
C10_Witness ==
    /\ recs_call = "returned"
    /\ NoneAgents = {}
    /\ Len(predictions["rop_optimization"].recommended_parameters) > 0
    /\ \E a, b \in CriticalAgents :
          /\ predictions[a].probability = Pct(80)
          /\ predictions[b].probability < Pct(80)
    /\ Cardinality(HighEntries) >= 2
    /\ EntriesOf("rop_optimization") = {}

\* C11: in a returned list every risk agent with 0.4 <= probability < 0.7
\* has exactly one entry, of impact Medium, placed after every High entry
\* and after the ROP Optimization entry; a risk agent with probability
\* below 0.4 has no entry.
C11_ModerateEntriesLast ==
    recs_call = "returned" =>
        \A a \in RiskAgentSet :
            IsResult(predictions[a]) =>
                /\ (/\ Pct(40) <= predictions[a].probability
                    /\ predictions[a].probability < Pct(70)) =>
                        /\ Cardinality(EntriesOf(a)) = 1
                        /\ \A i \in EntriesOf(a) :
                             /\ recommendations[i].impact_level = "Medium"
                             /\ \A j \in HighEntries
                                         \cup EntriesOf("rop_optimization") : j < i
                /\ predictions[a].probability < Pct(40) => EntriesOf(a) = {}

\* C12: no two entries of a returned list belong to the same agent, so no
\* agent is both in the High group and in the Medium group, or twice in one.
C12_AtMostOneEntryPerAgent ==
    recs_call = "returned" =>
        /\ \A a \in AllAgentSet : Cardinality(EntriesOf(a)) <= 1
        /\ \A i, j \in 1..Len(recommendations) :
             i # j => recommendations[i].category # recommendations[j].category

\* C12 witness: a returned list of five entries, one per agent: critical
\* ones, the ROP entry and moderate ones.
C12_Witness ==
    /\ recs_call = "returned"
    /\ Len(recommendations) = 5
    /\ Cardinality(CriticalAgents) >= 2
    /\ EntriesOf("rop_optimization") # {}
    /\ \E a \in RiskAgentSet \ CriticalAgents :
          \E i \in EntriesOf(a) : recommendations[i].impact_level = "Medium"

(***************************************************************************)
(* Properties of the agents' predict (checked under SpecPredict).          *)
(***************************************************************************)
\* C4: the probability predict returns, of any of the five agents and for
\* any reading, lies in [0, 1].
C4_ProbabilityInUnitInterval ==
    (called # "none" /\ ~call_raised) =>
        (0 <= result.probability /\ result.probability <= One)

\* C4 witness: the mechanical sticking agent scored a reading below zero
\* and returned 0.0.
C4_Witness ==
    /\ called = "mechanical_sticking"
    /\ ~MechanicalFault(drilling_data)
    /\ MechanicalScore(MechanicalFeatures(drilling_data)) < 0
    /\ result.probability = 0

\* The weighted scores the called risk agent may have computed for the
\* reading, before clipping.
WeightedScores(agent, d) ==
    IF agent = "mechanical_sticking" THEN {MechanicalScore(MechanicalFeatures(d))}
    ELSE IF agent = "differential_sticking"
    THEN {DifferentialScore(DifferentialFeatures(d))}
    ELSE IF agent = "hole_cleaning" THEN {HoleCleaningScore(HoleCleaningFeatures(d))}
    ELSE {WashoutScore(WashoutFeatures(d, ratio)) : ratio \in ReturnFlowSamples}

\* The try block of the called agent's predict raised on the reading.
Faulted(agent, d) ==
    IF agent = "mechanical_sticking" THEN MechanicalFault(d)
    ELSE IF agent = "differential_sticking" THEN DifferentialFault(d)
    ELSE IF agent = "hole_cleaning" THEN HoleCleaningFault(d)
    ELSE IF agent = "washout_mud_losses" THEN WashoutFault(d)
    ELSE d.kind # "dict"
         \/ AnyStr(<<d.WOB, d.RPM, d.MSE, d.ROP, d.SPP, d.Torque>>)

HasKey(r, key) == key \in DOMAIN r

\* C5: predict never raises to its caller, and on an internal fault it
\* returns a result with probability 0.0 and a non-empty recommendations
\* list.
C5_PredictNeverRaises ==
    called # "none" =>
        /\ ~call_raised
        /\ Faulted(called, drilling_data) =>
             /\ result.probability = 0
             /\ HasKey(result, "recommendations")
             /\ Len(result.recommendations) > 0

\* C13: the probability a risk agent reports for a reading it scored is its
\* weighted score multiplied by 1 + (sensitivity - 0.5), for the sensitivity
\* configured for the agent, clamped to [0, 1].  (Both sides are multiplied
\* by 100, the sensitivity being in percent.)
C13_SensitivityScalesProbability ==
    (/\ called \in RiskAgentSet
     /\ ~call_raised
     /\ ~Faulted(called, drilling_data)) =>
        \E score \in WeightedScores(called, drilling_data) :
            100 * result.probability
              = Max(0, Min(100 * One, score * (100 + DefaultSensitivity[called] - 50)))

\* Differential pressures, in psi, to compare a scored reading with.
PressureSamples == {0 - 230, 0, 200, 450, 599, 600, 700, 950, 1200, 1850}

\* The probability DifferentialSticking reports for the reading d with its
\* differential_pressure replaced by p.
ProbabilityAtPressure(d, p) ==
    DifferentialStickingPredict(
        [d EXCEPT !.differential_pressure = Num(p)]).probability

\* C14: when DifferentialSticking has scored a reading, the probability it
\* reports for the same reading with a larger differential_pressure is
\* greater than or equal to the reported one, and with a smaller one less
\* than or equal to it.
C14_MonotoneInDifferentialPressure ==
    (/\ called = "differential_sticking"
     /\ drilling_data.kind = "dict"
     /\ drilling_data.differential_pressure.t = "num") =>
        \A p \in PressureSamples :
            /\ p >= drilling_data.differential_pressure.v =>
                 ProbabilityAtPressure(drilling_data, p) >= result.probability
            /\ p <= drilling_data.differential_pressure.v =>
                 ProbabilityAtPressure(drilling_data, p) <= result.probability

\* C14 witness: a reading of 200 psi was scored, and the same reading at
\* 450 psi has a strictly larger probability, both inside (0, 1).
C14_Witness ==
    /\ called = "differential_sticking"
    /\ drilling_data.kind = "dict"
    /\ drilling_data.differential_pressure = Num(200)
    /\ 0 < result.probability
    /\ result.probability < ProbabilityAtPressure(drilling_data, 450)
    /\ ProbabilityAtPressure(drilling_data, 450) < One

\* The filter cake feature when the flow rate contributes 0: the ECD factor
\* alone, ECD being in tenths of ppg.
FilterCakeWithoutFlow(d) ==
    LET ecd == Get(d, "ECD", 125).v
    IN IF ecd > 100 THEN Min(F1, (F1 * (ecd - 100)) \div 40) ELSE 0

\* C15: for a reading with Flow_Rate = 0, predict of HoleCleaning and of
\* DifferentialSticking does not raise, and the flow-rate sub-feature is 0:
\* HoleCleaning's ROP-to-flow feature is 0 and adds nothing to the reported
\* probability, and DifferentialSticking's filter cake feature is what the
\* ECD factor alone gives.
C15_ZeroFlowRateFallsBackToZero ==
    (/\ called \in {"hole_cleaning", "differential_sticking"}
     /\ drilling_data.kind = "dict"
     /\ drilling_data.Flow_Rate = Num(0)
     /\ ~Faulted(called, drilling_data)) =>
        /\ ~call_raised
        /\ called = "hole_cleaning" =>
             LET f == HoleCleaningFeatures(drilling_data)
             IN /\ f.rop_flow_feature = 0
                /\ result.probability
                     = ClipProbability(
                           HoleCleaningScore([f EXCEPT !.rop_flow_feature = 0]))
        /\ called = "differential_sticking" =>
             LET f == DifferentialFeatures(drilling_data)
             IN /\ f.filter_cake_feature = FilterCakeWithoutFlow(drilling_data)
                /\ result.probability = ClipProbability(DifferentialScore(f))

\* C19: WashoutMudLosses reports the issue type, of washout and mud
\* losses, whose probability is the higher, and that higher value as the
\* probability.  The two values predict holds per issue, and compares to
\* name the issue type, are pressure_drop_feature (washout) and
\* flow_return_feature (mud losses), in thousandths.
C19_ReportsHigherOfTwoProbabilities ==
    (/\ called = "washout_mud_losses"
     /\ ~call_raised
     /\ ~Faulted(called, drilling_data)) =>
        \E ratio \in ReturnFlowSamples :
            LET f == WashoutFeatures(drilling_data, ratio)
                washout_probability == 100 * f.pressure_drop_feature
                mud_losses_probability == 100 * f.flow_return_feature
            IN /\ result.issue_type
                    = <<IF mud_losses_probability > washout_probability
                        THEN "Mud Losses" ELSE "Washout">>
               /\ result.probability
                    = Max(washout_probability, mud_losses_probability)

\* The value q (a number in hundredths) lies in [low, high].
WithinConstraint(q, low, high) ==
    q.t = "num" /\ 100 * low <= q.v /\ q.v <= 100 * high

\* C20: the recommended_parameters of a recommendation the ROP agent
\* returns (probability 0.9), on the heuristic path and on the regression
\* path, satisfy 5 <= WOB <= 50, 60 <= RPM <= 180 and
\* 400 <= Flow_Rate <= 800.
C20_RecommendedParametersWithinConstraints ==
    (/\ called = "rop_optimization"
     /\ ~call_raised
     /\ result.probability = Pct(90)) =>
        LET rec_params == result.recommended_parameters[1]
        IN /\ WithinConstraint(rec_params.WOB, 5, 50)
           /\ WithinConstraint(rec_params.RPM, 60, 180)
           /\ WithinConstraint(rec_params.Flow_Rate, 400, 800)

(***************************************************************************)
(* Properties of the polling cycle (checked under Spec).                   *)
(***************************************************************************)
\* The keys feature derivation is to define.
DerivedFields == {"MSE", "hole_cleaning_index", "differential_pressure",
                  "drag_factor"}

\* C16: the reading a cycle hands to the agents, after fetch_data's
\* calculate_derived_parameters and process_data, defines MSE,
\* hole_cleaning_index, differential_pressure and drag_factor, whatever the
\* fields of the data point were.
C16_DerivedFieldsAlwaysDefined ==
    new_data.kind = "dict" =>
        /\ drilling_data.kind = "dict"
        /\ \A k \in DerivedFields : Has(drilling_data, k)

\* key of the reading d is a number between low and high.
InRange(d, key, low, high) ==
    d[key].t = "num" => (low <= d[key].v /\ d[key].v <= high)

\* C18: the reading a cycle hands to the agents, after
\* calculate_derived_parameters and process_data, has
\* differential_pressure >= 0, hole_cleaning_index in [0.1, 1.0] and
\* drag_factor in [0.1, 1.0] (the two indices are in hundredths).
C18_DerivedFieldsInRange ==
    (new_data.kind = "dict" /\ drilling_data.kind = "dict") =>
        /\ drilling_data.differential_pressure.t = "num" =>
             drilling_data.differential_pressure.v >= 0
        /\ InRange(drilling_data, "hole_cleaning_index", 10, 100)
        /\ InRange(drilling_data, "drag_factor", 10, 100)

CycleEnded == pc \in {"sleep", "except"} /\ new_data.kind = "dict"

FaultedAgents == {a \in AllAgentSet : Faulted(a, drilling_data)}

\* predictions[agent] is what the agent's predict returns for the reading
\* of this cycle.
ComputedThisCycle(agent) ==
    IF agent = "mechanical_sticking"
    THEN predictions[agent] = MechanicalStickingPredict(drilling_data)
    ELSE IF agent = "differential_sticking"
    THEN predictions[agent] = DifferentialStickingPredict(drilling_data)
    ELSE IF agent = "hole_cleaning"
    THEN predictions[agent] = HoleCleaningPredict(drilling_data)
    ELSE IF agent = "washout_mud_losses"
    THEN \E ratio \in ReturnFlowSamples :
            predictions[agent] = WashoutMudLossesPredict(drilling_data, ratio)
    ELSE /\ IsResult(predictions[agent])
         /\ predictions[agent].probability \in {0, Pct(90)}

\* C6: at the end of a cycle in which the scoring of some agent failed, that
\* agent's result has probability 0.0, every other agent's result for the
\* cycle's reading was computed, and evaluate_predictions ran.
C6_AgentFailureDoesNotAbortCycle ==
    (CycleEnded /\ FaultedAgents # {}) =>
        /\ \A a \in FaultedAgents :
             IsResult(predictions[a]) /\ predictions[a].probability = 0
        /\ \A a \in AllAgentSet : ComputedThisCycle(a)
        /\ eval_call = "returned"

\* The last call of predict took the regression search of lines 137-203:
\* the model counted as trained and the search did not raise.
RegressionSearchUsed ==
    /\ called = "rop_optimization"
    /\ drilling_data.kind = "dict"
    /\ rop_agent.is_trained
    /\ ~SearchRaises(drilling_data)

\* C26: a call of ROPOptimization.predict uses the regression search only
\* when at least 5 readings with a ROP above 0 have been handed to the
\* agent by then, that call's reading included.
C26_RegressionOnlyAfterFiveSamples ==
    RegressionSearchUsed => Len(rop_arrivals) >= 5

\* C27: two consecutive calls of the same risk agent with the same reading
\* (the reading of SpecPredict does not change) return the same
\* probability, issue_type and recommendations.
C27_PredictIsFunctionOfReading ==
    [][(called \in RiskAgentSet /\ called' = called)
        => /\ result'.probability = result.probability
           /\ result'.issue_type = result.issue_type
           /\ result'.recommendations = result.recommendations]_vars

\* The sub-features the called risk agent may have computed for reading d.
SubFeatures(agent, d) ==
    IF agent = "mechanical_sticking" THEN {MechanicalFeatures(d)}
    ELSE IF agent = "differential_sticking" THEN {DifferentialFeatures(d)}
    ELSE IF agent = "hole_cleaning" THEN {HoleCleaningFeatures(d)}
    ELSE {WashoutFeatures(d, ratio) : ratio \in ReturnFlowSamples}

WeightedScore(agent, f) ==
    IF agent = "mechanical_sticking" THEN MechanicalScore(f)
    ELSE IF agent = "differential_sticking" THEN DifferentialScore(f)
    ELSE IF agent = "hole_cleaning" THEN HoleCleaningScore(f)
    ELSE WashoutScore(f)

\* No measured channel of the reading is below zero.
SensorsNotNegative(d) ==
    \A k \in {"depth", "WOB", "ROP", "RPM", "Torque", "SPP", "Flow_Rate",
              "ECD", "hook_load", "RPM_std", "WOB_std"} :
        d[k].t = "num" => d[k].v >= 0

\* C28: in each of the four risk agents, for a reading the agent scores
\* (no fault) and whose measured channels are not negative, every
\* sub-feature lies in [0, 1] and so does the weighted score before the
\* clamp.
C28_SubFeaturesInUnitInterval ==
    \A agent \in RiskAgentSet :
        (/\ called = agent
         /\ ~Faulted(agent, drilling_data)
         /\ SensorsNotNegative(drilling_data))
        => \A f \in SubFeatures(agent, drilling_data) :
              /\ \A k \in DOMAIN f : 0 <= f[k] /\ f[k] <= F1
              /\ 0 <= WeightedScore(agent, f)
              /\ WeightedScore(agent, f) <= One

\* The drag factors a derivation computes from hook_load and depth of the
\* fetched data point: the drag_factor of calculate_derived_parameters, or
\* the formula of process_data applied to the hook load.
DragFactorsFromHookLoad(point) ==
    {DerivedDragFactor(point),
     ProcessedDragFactor([point EXCEPT !.Hook_Load = point.hook_load]).v}

\* C29: when the mechanical sticking agent has scored the reading of a
\* cycle whose data point carries a hook load and a depth, the drag factor
\* it scored is the one derived from that hook load and depth.
C29_DragFactorDerivedFromHookLoad ==
    (/\ pc = "differential_sticking"
     /\ ~MechanicalFault(drilling_data)
     /\ Has(new_data, "hook_load") /\ Has(new_data, "depth")
     /\ ~AnyStr(<<new_data.hook_load, new_data.depth>>))
    => /\ Get(drilling_data, "Drag_Factor", 100).v
            \in DragFactorsFromHookLoad(new_data)
       /\ predictions["mechanical_sticking"]
            = MechanicalStickingPredict(drilling_data)

\* The length of the run of most recent samples below 5 RPM: the k for
\* which the last k samples are all below 5 and the one before them, if
\* there is one, is not.
TrailingLowRpmRun(w) ==
    CHOOSE k \in 0..Len(w) :
        /\ \A i \in (Len(w) - k + 1)..Len(w) : w[i] < 5
        /\ k < Len(w) => w[Len(w) - k] >= 5

\* The stationary-time factor as the claim states it, in thousandths.
StatedStationaryFactor(d) ==
    IF HasSeries(d, "RPM") /\ Len(Series(d, "RPM")) > 5
    THEN Min(F1, (F1 * Min(10, TrailingLowRpmRun(Series(d, "RPM")))) \div 15)
    ELSE 0

\* C30: the stationary-time factor the differential sticking agent scores
\* is the length of the trailing run of samples below 5 RPM within the last
\* 10 samples of the RPM window (a sample at 5 RPM or above resets the
\* count), divided by 15 and capped at 1; it is 0 when the window holds 5
\* or fewer samples, or there is no RPM window.  The probability returned
\* for a reading the agent scores is the one computed with that factor.
C30_StationaryFactorFromTrailingRun ==
    (called = "differential_sticking" /\ ~DifferentialFault(drilling_data)) =>
        LET f == DifferentialFeatures(drilling_data)
            stated == StatedStationaryFactor(drilling_data)
        IN /\ f.stationary_feature = stated
           /\ result.probability
                = ClipProbability(
                      DifferentialScore([f EXCEPT !.stationary_feature = stated]))
\* The agent scored a window of more than 10 samples in which, within the
\* last 10, a sample at 5 RPM follows samples below 5 and is followed by a
\* run of at least two samples below 5.
C30_Witness ==
    /\ called = "differential_sticking"
    /\ HasSeries(drilling_data, "RPM")
    /\ LET w == Series(drilling_data, "RPM")
       IN /\ Len(w) > 10
          /\ w[Len(w)] < 5 /\ w[Len(w) - 1] < 5
          /\ w[Len(w) - 2] >= 5
          /\ w[Len(w) - 3] < 5
          /\ DifferentialFeatures(drilling_data).stationary_feature
               = (2 * F1) \div 15

====
